---- MODULE Spec2Model ----
(***************************************************************************)
(* Model of the Space Haven save-game editor's backup manager              *)
(* (src/python/save_manager.py, class BackupManager) together with the     *)
(* callers that change a backup root (settings_dialog.py).                 *)
(*                                                                         *)
(* A file name is a sequence of character codes (ASCII), so that the       *)
(* f-string that builds an archive name, the glob patterns that find       *)
(* archives again and the name order of sorted() are computed as the code  *)
(* computes them.  A directory is a function from names to file contents.  *)
(***************************************************************************)
EXTENDS Integers, Sequences, FiniteSets, TLC

\* ------------------------------------------------------------------ bounds
\* Number of calendar days the clock ranges over.
MaxDay == 3
\* Largest number of archive files the backup root holds.
MaxArchives == 3
\* Largest keep_days argument handed to prune_old_backups.
MaxKeep == 3
\* Largest number of parts of a save file that is scanned.
MaxSections == 2
\* Largest number of sightings handed to add_unknown_item.
MaxSightings == 3
\* The number of parts the two save files of a comparison have together.
MaxParts == 2
\* Largest number of archive files the backup root holds where every kind of
\* save folder, or every outcome of the archive write, is exercised.
MaxCreated == 2

\* -------------------------------------------------------- program constants
\* BackupManager.__init__(backup_folder, max_days=3)
max_days == 3

\* ------------------------------------------------------------------ strings
\* Optional values: <<>> is Python's None, <<x>> is the value x.
None == <<>>
Some(x) == <<x>>

\* "-savegames"
SAVEGAMES == <<45, 115, 97, 118, 101, 103, 97, 109, 101, 115>>
\* ".zip"
ZIP == <<46, 122, 105, 112>>
\* "_"
UNDERSCORE == <<95>>
\* "-v"
DASH_V == <<45, 118>>
\* "*", the glob wildcard
STAR == <<42>>

RECURSIVE Dec(_)
\* str(n) of a natural number: its decimal digits.
Dec(n) == IF n < 10 THEN <<48 + n>> ELSE Dec(n \div 10) \o <<48 + (n % 10)>>

RECURSIVE ZeroPad(_, _)
\* A digit string left-padded with "0" to the given width (%Y, %m, %d).
ZeroPad(s, width) == IF Len(s) >= width THEN s ELSE ZeroPad(<<48>> \o s, width)

\* datetime.strftime("%Y%m%d") of a date held as the number yyyymmdd.
strftime(date) ==
    ZeroPad(Dec(date \div 10000), 4)
        \o ZeroPad(Dec((date \div 100) % 100), 2)
        \o ZeroPad(Dec(date % 100), 2)

\* s[:n] of Python: the first n characters, fewer when s is shorter.
Prefix(s, n) == SubSeq(s, 1, IF Len(s) < n THEN Len(s) ELSE n)

RECURSIVE LessFrom(_, _, _)
\* Whether a[i..] < b[i..], the two strings being equal before position i.
LessFrom(a, b, i) ==
    IF i > Len(b) THEN FALSE
    ELSE IF i > Len(a) THEN TRUE
    ELSE IF a[i] # b[i] THEN a[i] < b[i]
    ELSE LessFrom(a, b, i + 1)

\* a < b for two strings: the lexicographic order sorted() uses on paths of
\* one directory.
Less(a, b) == LessFrom(a, b, 1)

RECURSIVE MatchFrom(_, _, _, _)
\* Whether s[j..] matches pat[i..].
MatchFrom(pat, s, i, j) ==
    IF i > Len(pat) THEN j > Len(s)
    ELSE IF pat[i] = 42
        THEN MatchFrom(pat, s, i + 1, j) \/ (j <= Len(s) /\ MatchFrom(pat, s, i, j + 1))
    ELSE j <= Len(s) /\ s[j] = pat[i] /\ MatchFrom(pat, s, i + 1, j + 1)

\* Whether name s matches glob pattern pat, where the code 42 ("*") matches
\* any run of characters and every other code matches itself.
fnmatch(pat, s) == MatchFrom(pat, s, 1, 1)

RECURSIVE SortBy(_, _)
\* The elements of S in ascending order of before, where before[x] is the
\* set of elements that x precedes.
SortBy(S, before) ==
    IF S = {} THEN <<>>
    ELSE LET m == CHOOSE x \in S : \A y \in S \ {x} : y \in before[x]
         IN <<m>> \o SortBy(S \ {m}, before)

Range(s) == {s[i] : i \in 1..Len(s)}

\* ------------------------------------------------------------- file system
\* Contents of the files of a save folder.  The info file is XML whose root
\* may carry a version attribute; ET.parse raises on a file that is not
\* well-formed.
Info(v) == [wellformed |-> TRUE, version |-> v, body |-> "info"]
BadInfo == [wellformed |-> FALSE, version |-> None, body |-> "junk"]
Game(b) == [wellformed |-> FALSE, version |-> None, body |-> b]

\* The save folders create_backup is called with: a folder that does not
\* exist, and folders whose info file is at save/info, at info (the fallback
\* place), malformed, carrying an empty or no version attribute, or absent.
Sources ==
    { [exists |-> FALSE, name |-> "slot1", files |-> {}],
      [exists |-> TRUE, name |-> "slot1", files |-> {<<"save/info", Info(Some(<<49>>))>>}],
      [exists |-> TRUE, name |-> "slot1", files |-> {<<"info", Info(Some(<<50>>))>>}],
      [exists |-> TRUE, name |-> "slot1", files |-> {<<"save/info", BadInfo>>}],
      [exists |-> TRUE, name |-> "slot1", files |-> {<<"save/info", Info(Some(<<>>))>>}],
      [exists |-> TRUE, name |-> "slot1", files |-> {<<"save/info", Info(None)>>}],
      [exists |-> TRUE, name |-> "slot1", files |-> {}] }

FileExists(files, p) == \E f \in files : f[1] = p
ReadFile(files, p) == (CHOOSE f \in files : f[1] = p)[2]

\* The calendar dates the system clock can show.
Dates == {20240600 + d : d \in 1..MaxDay}

\* _get_save_version: the version attribute of save/info, or of info when
\* save/info does not exist; None when neither exists, when the file cannot
\* be parsed, or when the root has no version attribute.
get_save_version(src) ==
    LET info_file == IF FileExists(src.files, "save/info") THEN "save/info" ELSE "info"
    IN IF FileExists(src.files, info_file)
       THEN LET data == ReadFile(src.files, info_file)
            IN IF data.wellformed THEN data.version ELSE None
       ELSE None

\* Mutant: the version suffix is added whenever a version attribute was
\* read, also an empty one.
backup_name_any_version(today_str, next_n, version) ==
    LET version_str == IF version # None THEN DASH_V \o version[1] ELSE <<>>
    IN today_str \o UNDERSCORE \o Dec(next_n) \o SAVEGAMES \o version_str \o ZIP

\* The name create_backup gives the archive it writes.
backup_name(today_str, next_n, version) ==
    LET version_str == IF version # None /\ version[1] # <<>>
                       THEN DASH_V \o version[1] ELSE <<>>
    IN today_str \o UNDERSCORE \o Dec(next_n) \o SAVEGAMES \o version_str \o ZIP

\* The version tags read from the save folders.
Versions == {get_save_version(s) : s \in Sources}

\* Every archive name create_backup can build within the bounds, and every
\* date string.
DateStrs == {strftime(d) : d \in Dates}
AllNames ==
    {backup_name(ds, n, v) :
        ds \in DateStrs, n \in 1..(MaxArchives + MaxCreated), v \in Versions}

\* Less and fnmatch, tabulated once over those names: the set of strings
\* each string precedes, and the set of names each pattern matches.
Before == [a \in AllNames \cup DateStrs |-> {b \in AllNames \cup DateStrs : Less(a, b)}]
\* f"{date_str}_*-savegames*.zip" and "*-savegames*.zip"
DatePattern(date_str) == date_str \o UNDERSCORE \o STAR \o SAVEGAMES \o STAR \o ZIP
AnyPattern == STAR \o SAVEGAMES \o STAR \o ZIP
Matching ==
    [pat \in {DatePattern(ds) : ds \in DateStrs} \cup {AnyPattern} |->
        {n \in AllNames : fnmatch(pat, n)}]

\* sorted(S): the strings of S in ascending order.
sorted(S) == SortBy(S, Before)

\* sorted(S, reverse=True)
sorted_reverse(S) ==
    LET a == sorted(S) IN [i \in 1..Len(a) |-> a[Len(a) + 1 - i]]

\* self.backup_folder.glob(pattern): the names of the folder the pattern
\* matches.
glob(r, pat) == DOMAIN r \cap Matching[pat]

VARIABLES
    today,      \* the date datetime.now() returns
    root,       \* the backup folder: archive name -> archive contents
    last,       \* the last call: its arguments and its result
    tree,       \* the document scan_file parsed: its nodes in document order
    work,       \* the visits the passes of scan_file still have to make
    scan_pc,    \* where scan_file is: "idle", "scanning", "done", "raised"
    result,     \* the ScanResult scan_file is filling, or the caller holds
    counted,    \* the (node, attribute, pass) of every total_ids_found += 1
    analyzed_saves, \* the analyzer's cache: file path -> SaveFileInfo
    comparison,     \* the VersionComparison compare_saves returned
    analyzer_pc,    \* how the analyzer's last call ended: "idle",
                    \* "returned", "raised"
    calls           \* the create_backup calls of two concurrent callers

\* The state of the scanner.
scanner == <<tree, work, scan_pc, result, counted>>

\* The state of the version analyzer.
analyzer == <<analyzed_saves, comparison, analyzer_pc>>

vars ==
    <<today, root, last, tree, work, scan_pc, result, counted,
      analyzed_saves, comparison, analyzer_pc, calls>>

Names(r) == DOMAIN r

\* A directory with one file added or replaced.
WriteFile(r, name, content) ==
    [n \in Names(r) \cup {name} |-> IF n = name THEN content ELSE r[n]]

\* A directory with one file removed.
Unlink(r, name) == [n \in Names(r) \ {name} |-> r[n]]

\* ScanResult(file_path, scan_timestamp): the counters at 0 and no unknown
\* item.  The file path and the time stamp play no part in a scan and are
\* one fixed value each.
ScanResult ==
    [total_ids_found |-> 0, known_ids_count |-> 0, unknown_ids_count |-> 0,
     unknown_items |-> <<>>]

\* The record of a call: its arguments, the backup folder before it, and
\* its result.  NoCall means that no call has returned since the caller
\* last went back to idle.
NoCall ==
    [op |-> "none", src |-> CHOOSE s \in Sources : ~s.exists, force |-> FALSE,
     keep |-> 0, dry |-> FALSE, failed |-> {}, path |-> None, io |-> "none",
     pre |-> <<>>, preTarget |-> {}, postTarget |-> {},
     retPath |-> None, retList |-> <<>>, retOk |-> FALSE,
     retPairs |-> <<>>, retSize |-> 0,
     visit |-> [pass |-> "none", node |-> 0, attr |-> "", default |-> <<>>,
                guarded |-> FALSE, category |-> None, id_type |-> "",
                xml_path |-> <<"", <<>>, "">>],
     item |-> [id_value |-> 0, id_type |-> "", xml_path |-> <<"", <<>>, "">>,
               xml_tag |-> "", xml_attributes |-> <<>>, occurrences |-> 0],
     preResult |-> ScanResult, outcome |-> "none", report |-> <<>>,
     baseline |-> <<>>, other |-> <<>>, version |-> None]

\* No scan_file call is in progress and no ScanResult is held.
ScannerIdle ==
    /\ tree = <<>>
    /\ work = <<>>
    /\ scan_pc = "idle"
    /\ result = ScanResult
    /\ counted = <<>>

\* VersionComparison(baseline_file, comparison_file, baseline_version,
\* comparison_version): every list empty.  The two file names play no part
\* in a comparison.
VersionComparison(baseline_version, comparison_version) ==
    [baseline_version |-> baseline_version,
     comparison_version |-> comparison_version,
     missing_elements |-> <<>>, new_elements |-> <<>>, id_changes |-> <<>>,
     structural_differences |-> <<>>, compatibility_notes |-> <<>>]

\* A new SaveFileVersionAnalyzer: nothing analyzed, no comparison made.
AnalyzerIdle ==
    /\ analyzed_saves = <<>>
    /\ comparison = VersionComparison(None, None)
    /\ analyzer_pc = "idle"

\* ----------------------------------------------------------- BackupManager
\* Mutant: the archives of a date in descending name order.
find_backups_for_date_unsorted(r, date_str) ==
    sorted_reverse(glob(r, DatePattern(date_str)))

\* _find_backups_for_date: sorted(glob(f"{date_str}_*-savegames*.zip"))
find_backups_for_date(r, date_str) ==
    sorted(glob(r, DatePattern(date_str)))

\* Mutant: the archives in descending name order.
get_all_backups_reversed(r) ==
    LET a == sorted_reverse(glob(r, AnyPattern))
    IN [i \in 1..Len(a) |-> <<Prefix(a[i], 8), a[i]>>]

\* get_all_backups: (date, path) of sorted(glob("*-savegames*.zip")), the
\* date being the first eight characters of the name.  The third component
\* of the code's tuples is the size st_size gives for the path.
get_all_backups(r) ==
    LET a == sorted(glob(r, AnyPattern))
    IN [i \in 1..Len(a) |-> <<Prefix(a[i], 8), a[i]>>]

\* Mutant: the dates in ascending order.
get_backup_dates_ascending(r) ==
    sorted({b[1] : b \in Range(get_all_backups(r))})

\* Mutant: one date per archive, not one per distinct date.
get_backup_dates_repeated(r) ==
    LET a == get_all_backups(r) IN [i \in 1..Len(a) |-> a[Len(a) + 1 - i][1]]

\* get_backup_dates: sorted(set(dates), reverse=True)
get_backup_dates(r) ==
    sorted_reverse({b[1] : b \in Range(get_all_backups(r))})

\* backup_file.stat().st_size, in units of one archived file.
st_size(r, name) == Cardinality(r[name].entries)

RECURSIVE Sum(_)
\* sum() of a sequence of numbers.
Sum(seq) == IF seq = <<>> THEN 0 ELSE Head(seq) + Sum(Tail(seq))

\* get_total_backup_size: the sum of the sizes get_all_backups lists.
get_total_backup_size(r) ==
    LET a == get_all_backups(r) IN Sum([i \in 1..Len(a) |-> st_size(r, a[i][2])])

\* Mutant: the files archived under their path relative to the source
\* folder itself, without the folder's name.
Entries_relative_to_source(src) == {<<"", f[1], f[2]>> : f \in src.files}

\* The entries zipf.write adds: every file of the source folder under its
\* path relative to the folder's parent.
Entries(src) == {<<src.name, f[1], f[2]>> : f \in src.files}

\* What the file system does to one archive write: "ok" writes every entry;
\* "open" fails to create the archive file; "write" fails after the file was
\* created or truncated, leaving either a readable ZIP of the entries
\* written so far (closing the archive still succeeded) or a file that is
\* no readable ZIP (written = {}, valid = FALSE).
IOs(src) ==
    {[kind |-> "ok", written |-> Entries(src), valid |-> TRUE],
     [kind |-> "open", written |-> {}, valid |-> FALSE],
     [kind |-> "write", written |-> {}, valid |-> FALSE]}
    \cup {[kind |-> "write", written |-> w, valid |-> TRUE] :
            w \in (SUBSET Entries(src)) \ {Entries(src)}}

\* create_backup past its check of the source folder: the version tag, the
\* date, today's archives, and either the first of them or a new archive.
create_backup_existing(r, now, src, force_new, io) ==
    LET version == get_save_version(src)
        today_str == strftime(now)
        existing_today == find_backups_for_date(r, today_str)
        next_n == Len(existing_today) + 1
        name == backup_name(today_str, next_n, version)
    IN IF existing_today # <<>> /\ ~force_new
       THEN [root |-> r, ret |-> Some(existing_today[1]), opened |-> None]
       ELSE CASE io.kind = "ok" ->
                    [root |-> WriteFile(r, name, [entries |-> io.written, valid |-> TRUE]),
                     ret |-> Some(name), opened |-> Some(name)]
              [] io.kind = "open" ->
                    [root |-> r, ret |-> None, opened |-> Some(name)]
              [] OTHER ->
                    [root |-> WriteFile(r, name, [entries |-> io.written, valid |-> io.valid]),
                     ret |-> None, opened |-> Some(name)]

\* Mutant: create_backup without the check that the source folder exists.
create_backup_unchecked(r, now, src, force_new, io) ==
    create_backup_existing(r, now, src, force_new, io)

\* create_backup(source_folder, force_new) in backup folder r on date now:
\* the backup folder afterwards, the returned path (None on failure), and
\* the path of the archive file it opened for writing, if it did.
create_backup(r, now, src, force_new, io) ==
    IF ~src.exists
    THEN [root |-> r, ret |-> None, opened |-> None]
    ELSE create_backup_existing(r, now, src, force_new, io)

\* Mutant: only the first archive of a date is handled.
prune_files_first(acc, backups, date_str, dry_run, fails) ==
    IF backups = <<>> THEN acc
    ELSE LET backup_path == Head(backups)
         IN IF ~dry_run
            THEN IF backup_path \notin fails
                 THEN [acc EXCEPT !.root = Unlink(acc.root, backup_path),
                                  !.ret = Append(acc.ret, backup_path)]
                 ELSE [acc EXCEPT !.failed = Append(acc.failed, backup_path)]
            ELSE [acc EXCEPT !.ret = Append(acc.ret, backup_path)]

RECURSIVE prune_files_abort(_, _, _, _, _)
\* Mutant: the loop over the archives of a date stops at the first deletion
\* that fails.
prune_files_abort(acc, backups, date_str, dry_run, fails) ==
    IF backups = <<>> THEN acc
    ELSE LET backup_path == Head(backups)
         IN IF ~dry_run
            THEN IF backup_path \notin fails
                 THEN prune_files_abort(
                        [acc EXCEPT !.root = Unlink(acc.root, backup_path),
                                    !.ret = Append(acc.ret, backup_path)],
                        Tail(backups), date_str, dry_run, fails)
                 ELSE [acc EXCEPT !.failed = Append(acc.failed, backup_path)]
            ELSE prune_files_abort([acc EXCEPT !.ret = Append(acc.ret, backup_path)],
                                   Tail(backups), date_str, dry_run, fails)

RECURSIVE prune_files_dry_run_unlinks(_, _, _, _, _)
\* Mutant: a dry run deletes the archives it reports.
prune_files_dry_run_unlinks(acc, backups, date_str, dry_run, fails) ==
    IF backups = <<>> THEN acc
    ELSE LET backup_path == Head(backups)
             step == IF backup_path \notin fails
                     THEN [acc EXCEPT !.root = Unlink(acc.root, backup_path),
                                      !.ret = Append(acc.ret, backup_path)]
                     ELSE [acc EXCEPT !.failed = Append(acc.failed, backup_path)]
         IN prune_files_dry_run_unlinks(step, Tail(backups), date_str, dry_run, fails)

RECURSIVE prune_files(_, _, _, _, _)
\* The inner loop of prune_old_backups over the archives of one date.
prune_files(acc, backups, date_str, dry_run, fails) ==
    IF backups = <<>> THEN acc
    ELSE LET backup_path == Head(backups)
             step == IF ~dry_run
                     THEN IF backup_path \notin fails
                          THEN [acc EXCEPT !.root = Unlink(acc.root, backup_path),
                                           !.ret = Append(acc.ret, backup_path)]
                          ELSE [acc EXCEPT !.failed = Append(acc.failed, backup_path)]
                     ELSE [acc EXCEPT !.ret = Append(acc.ret, backup_path)]
         IN prune_files(step, Tail(backups), date_str, dry_run, fails)

RECURSIVE prune_dates(_, _, _, _)
\* The outer loop of prune_old_backups over dates_to_delete.
prune_dates(acc, dates_to_delete, dry_run, fails) ==
    IF dates_to_delete = <<>> THEN acc
    ELSE LET date_str == Head(dates_to_delete)
             backups == find_backups_for_date(acc.root, date_str)
         IN prune_dates(prune_files(acc, backups, date_str, dry_run, fails),
                        Tail(dates_to_delete), dry_run, fails)

\* Mutant: dates[keep_days - 1:]
dates_to_delete_one_more(dates, keep_days) ==
    SubSeq(dates, IF keep_days >= 1 THEN keep_days ELSE 1, Len(dates))

\* dates[keep_days:]
dates_to_delete(dates, keep_days) == SubSeq(dates, keep_days + 1, Len(dates))

\* prune_old_backups(keep_days, dry_run) in backup folder r, where unlink
\* raises for the paths in fails: the backup folder afterwards, the returned
\* list, and the paths whose deletion failed.
prune_old_backups(r, keep, dry_run, fails) ==
    LET keep_days == IF keep = None THEN max_days ELSE keep[1]
        dates == get_backup_dates(r)
    IN IF Len(dates) <= keep_days
       THEN [root |-> r, ret |-> <<>>, failed |-> <<>>]
       ELSE prune_dates([root |-> r, ret |-> <<>>, failed |-> <<>>],
                        dates_to_delete(dates, keep_days), dry_run, fails)

\* The archives BackupManagementDialog.init_ui lists as selectable items.
listed_backups(r) ==
    UNION {Range(find_backups_for_date(r, d)) : d \in Range(get_backup_dates(r))}

\* delete_selected, confirmed by the user, on the item of backup_path.
delete_selected(r, backup_path, unlink_ok) ==
    IF unlink_ok THEN Unlink(r, backup_path) ELSE r

\* extractall: every entry written under the target folder, replacing a file
\* already at that path.
extract(t, entries) ==
    {f \in t : ~\E e \in entries : e[1] = f[1] /\ e[2] = f[2]} \cup entries

\* Mutant: a missing archive is reported as restored.
restore_backup_unchecked(r, t, backup_path, extracted) ==
    IF backup_path \notin Names(r)
    THEN [target |-> t, ret |-> TRUE]
    ELSE IF ~r[backup_path].valid
    THEN [target |-> t, ret |-> FALSE]
    ELSE [target |-> extract(t, extracted), ret |-> extracted = r[backup_path].entries]

\* restore_backup(backup_path, target_folder): the target folder afterwards
\* and the returned flag.  extracted is what extractall wrote before an I/O
\* error, all entries when there is none.
restore_backup(r, t, backup_path, extracted) ==
    IF backup_path \notin Names(r)
    THEN [target |-> t, ret |-> FALSE]
    ELSE IF ~r[backup_path].valid
    THEN [target |-> t, ret |-> FALSE]
    ELSE [target |-> extract(t, extracted), ret |-> extracted = r[backup_path].entries]

\* ------------------------------------------------------------------ actions
Idle == last.op = "none"

\* The callers that may call create_backup at the same time.
Callers == {1, 2}

\* A create_backup call that has not begun: no source folder, no listing.
NotCalled ==
    [pc |-> "idle", src |-> CHOOSE s \in Sources : ~s.exists, force |-> FALSE,
     today_str |-> <<>>, existing_today |-> <<>>, ret |-> None, opened |-> None]

\* No caller is inside create_backup.  before is the backup folder when the
\* first of the calls began; overlapped says that one call listed today's
\* archives and the other wrote its archive before the first one wrote.
NoCalls ==
    calls = [before |-> <<>>, overlapped |-> FALSE,
             call |-> [w \in Callers |-> NotCalled]]

\* A new BackupManager on an empty backup folder, the clock within days.
InitIn(days) ==
    /\ today \in days
    /\ root = <<>>
    /\ last = NoCall
    /\ ScannerIdle
    /\ AnalyzerIdle
    /\ NoCalls

Init == InitIn(Dates)

\* The caller has used the result of the last call and is idle again.
Return ==
    /\ ~Idle
    /\ last' = NoCall
    /\ UNCHANGED <<today, root, scanner, analyzer, calls>>

\* The system clock moves to another date of days.
SetClockIn(days) ==
    /\ Idle
    /\ \E d \in days \ {today} : today' = d
    /\ UNCHANGED <<root, last, scanner, analyzer, calls>>

SetClock == SetClockIn(Dates)

\* The day a session starts and the day after.
TwoDates == {d \in Dates : \A e \in Dates : d <= e + 1}

SetClockOvernight == SetClockIn(TwoDates)

\* A call of create_backup with a save folder of srcs, the archive write
\* ending in one of kinds, the backup folder holding at most cap archives.
CreateBackupOf(srcs, kinds, cap) ==
    /\ Idle
    /\ \E src \in srcs, force_new \in BOOLEAN :
         \E io \in {i \in IOs(src) : i.kind \in kinds} :
           LET res == create_backup(root, today, src, force_new, io)
           IN /\ Cardinality(Names(res.root)) <= cap
              /\ root' = res.root
              /\ last' = [NoCall EXCEPT !.op = "create_backup", !.src = src,
                             !.force = force_new, !.pre = root,
                             !.io = IF res.opened = None THEN "none" ELSE io.kind,
                             !.path = res.opened, !.retPath = res.ret]
              /\ UNCHANGED <<today, scanner, analyzer, calls>>

\* The save folder of a game that was saved once: it exists and its info
\* file carries a version.
GoodSources == {s \in Sources : get_save_version(s) = Some(<<49>>)}

\* create_backup of a good save folder, the archive written without error.
CreateBackup == CreateBackupOf(GoodSources, {"ok"}, MaxArchives)

\* create_backup of any save folder, the archive written or not created.
CreateBackupAny == CreateBackupOf(Sources, {"ok", "open"}, MaxCreated)

\* create_backup of a good save folder, with every outcome of the write.
CreateBackupIO == CreateBackupOf(GoodSources, {"ok", "open", "write"}, MaxCreated)

\* The archives a prune with this keep_days tries to delete.
Candidates(r, keep) == Range(prune_old_backups(r, keep, TRUE, {}).ret)

\* A call of prune_old_backups; unlink raises for the archives in fails.
PruneOldBackups ==
    /\ Idle
    /\ \E keep \in {None} \cup {Some(k) : k \in 0..MaxKeep}, dry_run \in BOOLEAN :
         \E fails \in (IF dry_run THEN {{}} ELSE SUBSET Candidates(root, keep)) :
           LET res == prune_old_backups(root, keep, dry_run, fails)
           IN /\ root' = res.root
              /\ last' = [NoCall EXCEPT !.op = "prune_old_backups",
                             !.keep = IF keep = None THEN max_days ELSE keep[1],
                             !.dry = dry_run, !.failed = Range(res.failed),
                             !.pre = root, !.retList = res.ret]
              /\ UNCHANGED <<today, scanner, analyzer, calls>>

\* The user deletes one listed archive in the backup management dialog.
DeleteSelected ==
    /\ Idle
    /\ \E backup_path \in listed_backups(root), unlink_ok \in BOOLEAN :
        /\ root' = delete_selected(root, backup_path, unlink_ok)
        /\ last' = [NoCall EXCEPT !.op = "delete_selected", !.pre = root,
                       !.path = Some(backup_path), !.retOk = unlink_ok]
        /\ UNCHANGED <<today, scanner, analyzer, calls>>

\* Paths restore_backup is called with: the archives of the backup folder
\* and a path at which there is no file.
RestorePaths ==
    Names(root) \cup ({backup_name(strftime(today), 1, None)} \ Names(root))

\* Contents of the target folder before a restore: empty, or holding a file
\* at a path the archive may also hold.
Targets == {{}, {<<"slot1", "save/info", BadInfo>>}}

\* A call of restore_backup into a target folder.
RestoreBackup ==
    /\ Idle
    /\ \E backup_path \in RestorePaths, t \in Targets :
         \E extracted \in (IF backup_path \in Names(root)
                           THEN SUBSET root[backup_path].entries ELSE {{}}) :
           LET res == restore_backup(root, t, backup_path, extracted)
           IN /\ last' = [NoCall EXCEPT !.op = "restore_backup", !.pre = root,
                             !.preTarget = t, !.postTarget = res.target,
                             !.path = Some(backup_path), !.retOk = res.ret]
              /\ UNCHANGED <<today, root, scanner, analyzer, calls>>

\* A call of get_all_backups.
GetAllBackups ==
    /\ Idle
    /\ last' = [NoCall EXCEPT !.op = "get_all_backups", !.pre = root,
                   !.retPairs = get_all_backups(root)]
    /\ UNCHANGED <<today, root, scanner, analyzer, calls>>

\* A call of get_backup_dates.
GetBackupDates ==
    /\ Idle
    /\ last' = [NoCall EXCEPT !.op = "get_backup_dates", !.pre = root,
                   !.retList = get_backup_dates(root)]
    /\ UNCHANGED <<today, root, scanner, analyzer, calls>>

\* A call of get_total_backup_size.
GetTotalBackupSize ==
    /\ Idle
    /\ last' = [NoCall EXCEPT !.op = "get_total_backup_size", !.pre = root,
                   !.retSize = get_total_backup_size(root)]
    /\ UNCHANGED <<today, root, scanner, analyzer, calls>>

\* Retention: backups of a good save folder over several days, pruned and
\* deleted.
Next ==
    \/ SetClock
    \/ CreateBackup
    \/ PruneOldBackups
    \/ DeleteSelected
    \/ GetAllBackups
    \/ GetBackupDates
    \/ GetTotalBackupSize
    \/ Return

Spec == Init /\ [][Next]_vars

\* Creation: backups of every kind of save folder over two days, deleted
\* and restored.
NextCreate ==
    \/ SetClockOvernight
    \/ CreateBackupAny
    \/ DeleteSelected
    \/ RestoreBackup
    \/ Return

SpecCreate == InitIn(TwoDates) /\ [][NextCreate]_vars

\* Failure: backups whose archive write may fail at any point, deleted and
\* restored.
NextIO ==
    \/ SetClockOvernight
    \/ CreateBackupIO
    \/ DeleteSelected
    \/ RestoreBackup
    \/ Return

SpecIO == InitIn(TwoDates) /\ [][NextIO]_vars

\* -------------------------------------------------------------- ElementTree
\* A parsed document is the sequence of its elements in document order.  An
\* element is [tag, parent, attrib]: parent is the position of its parent
\* (0 for the root element), attrib the (name, value) pairs of its
\* attributes in the order they are written.  Attribute values are strings
\* of character codes.
Element(tag, parent, attrib) == [tag |-> tag, parent |-> parent, attrib |-> attrib]

Min(S) == CHOOSE x \in S : \A y \in S : x <= y

RECURSIVE Ordered(_)
\* The numbers of S in ascending order: document order of a set of elements.
Ordered(S) == IF S = {} THEN <<>> ELSE <<Min(S)>> \o Ordered(S \ {Min(S)})

RECURSIVE Flatten(_)
\* The concatenation of a sequence of sequences.
Flatten(seqs) == IF seqs = <<>> THEN <<>> ELSE Head(seqs) \o Flatten(Tail(seqs))

\* name in elem.attrib
HasAttrib(e, name) == \E k \in 1..Len(e.attrib) : e.attrib[k][1] = name

\* elem.get(name, default)
Get(e, name, default) ==
    IF HasAttrib(e, name)
    THEN e.attrib[CHOOSE k \in 1..Len(e.attrib) : e.attrib[k][1] = name][2]
    ELSE default

\* root.findall(".//tag"): every element below the root with this tag.
findall_descendants(doc, tag) == Ordered({j \in 2..Len(doc) : doc[j].tag = tag})

\* elem.findall("tag"): the children of element i with this tag.
findall(doc, i, tag) ==
    Ordered({j \in 1..Len(doc) : doc[j].parent = i /\ doc[j].tag = tag})

\* elem.find("tag"): the first child of element i with this tag, 0 for None.
find(doc, i, tag) ==
    LET found == findall(doc, i, tag) IN IF found = <<>> THEN 0 ELSE found[1]

\* root.iter(): every element, the root included.
iter(doc) == [i \in 1..Len(doc) |-> i]

\* str.strip() of the white space int() ignores around a number.
Whitespace == {9, 10, 11, 12, 13, 32}
RECURSIVE Strip(_)
Strip(s) ==
    IF s # <<>> /\ s[1] \in Whitespace THEN Strip(Tail(s))
    ELSE IF s # <<>> /\ s[Len(s)] \in Whitespace THEN Strip(SubSeq(s, 1, Len(s) - 1))
    ELSE s

IsDigit(ch) == ch \in 48..57

RECURSIVE DigitsValue(_, _, _)
\* The number a run of digits and underscores denotes.
DigitsValue(s, k, acc) ==
    IF k > Len(s) THEN acc
    ELSE IF s[k] = 95 THEN DigitsValue(s, k + 1, acc)
    ELSE DigitsValue(s, k + 1, 10 * acc + (s[k] - 48))

\* int(s) of a string: white space around it is ignored, then an optional
\* sign, then digits with single underscores between them.  None stands for
\* ValueError.
int(s) ==
    LET t == Strip(s)
        signed == t # <<>> /\ t[1] \in {43, 45}
        body == IF signed THEN Tail(t) ELSE t
        wellformed ==
            /\ body # <<>>
            /\ \A k \in 1..Len(body) :
                \/ IsDigit(body[k])
                \/ /\ body[k] = 95
                   /\ 1 < k
                   /\ k < Len(body)
                   /\ IsDigit(body[k - 1])
                   /\ IsDigit(body[k + 1])
    IN IF ~wellformed THEN None
       ELSE IF signed /\ t[1] = 45 THEN Some(0 - DigitsValue(body, 1, 0))
       ELSE Some(DigitsValue(body, 1, 0))

\* ------------------------------------------------------------ ReferenceData
\* The catalog of known identifiers, by category.
ReferenceData ==
    [attributes |-> {210}, skills |-> {1, 2}, traits |-> {1}, conditions |-> {210},
     storage_items |-> {2}, research |-> {210}, crafts |-> {1}]

\* is_known_id(id, category): whether the catalog holds the identifier in
\* this category; without a category, whether it holds it in any.
is_known_id(id_value, category) ==
    IF category = None
    THEN id_value \in UNION {ReferenceData[c] : c \in DOMAIN ReferenceData}
    ELSE id_value \in ReferenceData[category[1]]

\* ---------------------------------------------------------- SaveFileScanner
\* "0" and "unknown", the defaults of elem.get
ZERO == <<48>>
UNKNOWN == <<117, 110, 107, 110, 111, 119, 110>>

\* UnknownItem(id_value, id_type, xml_path, xml_tag, xml_attributes)
UnknownItem(id_value, id_type, xml_path, xml_tag, xml_attributes) ==
    [id_value |-> id_value, id_type |-> id_type, xml_path |-> xml_path,
     xml_tag |-> xml_tag, xml_attributes |-> xml_attributes, occurrences |-> 1]

\* Mutant: a repeated sighting is found but not counted.
add_unknown_item_uncounted(res, item) ==
    LET existing == {k \in 1..Len(res.unknown_items) :
                        /\ res.unknown_items[k].id_value = item.id_value
                        /\ res.unknown_items[k].id_type = item.id_type}
    IN IF existing # {}
       THEN res
       ELSE [res EXCEPT !.unknown_items = Append(@, item),
                        !.unknown_ids_count = @ + 1]

\* Mutant: every sighting is appended.
add_unknown_item_appended(res, item) ==
    [res EXCEPT !.unknown_items = Append(@, item), !.unknown_ids_count = @ + 1]

\* ScanResult.add_unknown_item: the first entry with the item's id_value and
\* id_type gets one more occurrence; without such an entry the item is
\* appended.
add_unknown_item(res, item) ==
    LET existing == {k \in 1..Len(res.unknown_items) :
                        /\ res.unknown_items[k].id_value = item.id_value
                        /\ res.unknown_items[k].id_type = item.id_type}
    IN IF existing # {}
       THEN [res EXCEPT !.unknown_items[Min(existing)].occurrences = @ + 1]
       ELSE [res EXCEPT !.unknown_items = Append(@, item),
                        !.unknown_ids_count = @ + 1]

RECURSIVE SumOccurrences(_)
SumOccurrences(items) ==
    IF items = <<>> THEN 0 ELSE Head(items).occurrences + SumOccurrences(Tail(items))

\* The sightings a ScanResult records: the occurrences of its unknown items.
Occurrences(res) == SumOccurrences(res.unknown_items)

\* One visit of a pass to an identifier-bearing attribute of an element: the
\* attribute read and the default of elem.get, whether int() is inside a
\* try/except ValueError, the catalog category asked (None for any), and the
\* id_type and xml_path of the UnknownItem it may build.  An xml_path is
\* the text before a character's entId, the entId, and the text after it.
Visit(pass, node, attr, default, guarded, category, id_type, xml_path) ==
    [pass |-> pass, node |-> node, attr |-> attr, default |-> default,
     guarded |-> guarded, category |-> category, id_type |-> id_type,
     xml_path |-> xml_path]

\* The visits _scan_characters makes in one block (attr, skills, traits or
\* conditions) of the pers element of a character.
BlockVisits(doc, char_id, pers_elem, block, tag, category, id_type) ==
    LET block_elem == find(doc, pers_elem, block)
        elems == IF block_elem = 0 THEN <<>> ELSE findall(doc, block_elem, tag)
    IN [k \in 1..Len(elems) |->
          Visit("characters", elems[k], "id", ZERO, FALSE, Some(category), id_type,
                <<"//c[@entId='", char_id, "']/pers/" \o block \o "/" \o tag>>)]

\* The visits _scan_characters makes for one c element.
CharacterVisits(doc, char_elem) ==
    LET char_id == Get(doc[char_elem], "entId", UNKNOWN)
        pers_elem == find(doc, char_elem, "pers")
    IN IF pers_elem = 0 THEN <<>>
       ELSE BlockVisits(doc, char_id, pers_elem, "attr", "a", "attributes", "attribute")
            \o BlockVisits(doc, char_id, pers_elem, "skills", "s", "skills", "skill")
            \o BlockVisits(doc, char_id, pers_elem, "traits", "t", "traits", "trait")
            \o BlockVisits(doc, char_id, pers_elem, "conditions", "c", "conditions",
                           "condition")

\* The visits of _scan_characters: every c element below the root.
scan_characters_visits(doc) ==
    LET chars == findall_descendants(doc, "c")
    IN Flatten([k \in 1..Len(chars) |-> CharacterVisits(doc, chars[k])])

\* The visits of a loop "for elem in root.findall(.//tag): if attr in
\* elem.attrib".
TaggedVisits(doc, pass, tag, attr, default, guarded, category, id_type, xml_path) ==
    LET elems == findall_descendants(doc, tag)
        bearing == SelectSeq(elems, LAMBDA j : HasAttrib(doc[j], attr))
    IN [k \in 1..Len(bearing) |->
          Visit(pass, bearing[k], attr, default, guarded, Some(category), id_type,
                xml_path)]

\* The visits of _scan_storage: item elements with an id, then s elements
\* with an objId.
scan_storage_visits(doc) ==
    TaggedVisits(doc, "storage", "item", "id", <<>>, TRUE, "storage_items",
                 "storage_item", <<"//item", <<>>, "">>)
    \o TaggedVisits(doc, "storage", "s", "objId", <<>>, TRUE, "storage_items",
                    "storage_item", <<"//s[@objId]", <<>>, "">>)

\* The visits of _scan_research and of _scan_crafts.
scan_research_visits(doc) ==
    TaggedVisits(doc, "research", "research", "id", ZERO, FALSE, "research",
                 "research", <<"//research", <<>>, "">>)
scan_crafts_visits(doc) ==
    TaggedVisits(doc, "crafts", "craft", "type", ZERO, FALSE, "crafts", "craft",
                 <<"//craft", <<>>, "">>)

\* The attribute names _scan_generic_ids looks at, and the tags it leaves to
\* the other passes.
id_attributes == <<"id", "type", "objId", "itemId", "typeId">>
checked_tags == {"c", "a", "s", "t", "item", "research", "craft"}

\* The visits of _scan_generic_ids: every element, and for each the
\* attributes of id_attributes it has.
scan_generic_ids_visits(doc) ==
    LET elems == iter(doc)
        names(j) == SelectSeq(id_attributes, LAMBDA a : HasAttrib(doc[j], a))
    IN Flatten([k \in 1..Len(elems) |->
          [m \in 1..Len(names(elems[k])) |->
              Visit("generic", elems[k], names(elems[k])[m], <<>>, TRUE, None,
                    "generic", <<"//" \o doc[elems[k]].tag, <<>>, "">>)]])

\* The visits of scan_file, in the order of its five passes.
Visits(doc) ==
    scan_characters_visits(doc) \o scan_storage_visits(doc)
        \o scan_research_visits(doc) \o scan_crafts_visits(doc)
        \o scan_generic_ids_visits(doc)

\* Mutant: the catch-all pass counts the elements of every tag.
classify_every_tag(doc, res, v) ==
    LET elem == doc[v.node]
        id_value == int(Get(elem, v.attr, v.default))
        found == [res EXCEPT !.total_ids_found = @ + 1]
    IN IF id_value = None
       THEN [result |-> res, outcome |-> IF v.guarded THEN "skipped" ELSE "raised"]
       ELSE IF ~is_known_id(id_value[1], v.category)
       THEN [result |-> add_unknown_item(found,
                            UnknownItem(id_value[1], v.id_type, v.xml_path,
                                        elem.tag, elem.attrib)),
             outcome |-> "unknown"]
       ELSE [result |-> [found EXCEPT !.known_ids_count = @ + 1],
             outcome |-> "known"]

\* Mutant: every identifier is looked up in the whole catalog.
classify_any_category(doc, res, v) ==
    LET elem == doc[v.node]
        id_value == int(Get(elem, v.attr, v.default))
        found == [res EXCEPT !.total_ids_found = @ + 1]
    IN IF id_value = None
       THEN [result |-> res, outcome |-> IF v.guarded THEN "skipped" ELSE "raised"]
       ELSE IF v.pass = "generic" /\ elem.tag \in checked_tags
       THEN [result |-> res, outcome |-> "continue"]
       ELSE IF ~is_known_id(id_value[1], None)
       THEN [result |-> add_unknown_item(found,
                            UnknownItem(id_value[1], v.id_type, v.xml_path,
                                        elem.tag, elem.attrib)),
             outcome |-> "unknown"]
       ELSE [result |-> [found EXCEPT !.known_ids_count = @ + 1],
             outcome |-> "known"]

\* One visit: int() of the attribute's value raises ValueError ("skipped"
\* where the pass catches it, "raised" where it does not), the catch-all
\* pass leaves an element of checked_tags alone ("continue"), and every
\* other identifier is counted and classified ("known" or "unknown").
classify(doc, res, v) ==
    LET elem == doc[v.node]
        id_value == int(Get(elem, v.attr, v.default))
        found == [res EXCEPT !.total_ids_found = @ + 1]
    IN IF id_value = None
       THEN [result |-> res, outcome |-> IF v.guarded THEN "skipped" ELSE "raised"]
       ELSE IF v.pass = "generic" /\ elem.tag \in checked_tags
       THEN [result |-> res, outcome |-> "continue"]
       ELSE IF ~is_known_id(id_value[1], v.category)
       THEN [result |-> add_unknown_item(found,
                            UnknownItem(id_value[1], v.id_type, v.xml_path,
                                        elem.tag, elem.attrib)),
             outcome |-> "unknown"]
       ELSE [result |-> [found EXCEPT !.known_ids_count = @ + 1],
             outcome |-> "known"]

\* The categories of unknown items in the order of Python's string
\* comparison, and str.title() of each.
id_types ==
    <<"attribute", "condition", "craft", "generic", "research", "skill",
      "storage_item", "trait">>
title ==
    [attribute |-> "Attribute", condition |-> "Condition", craft |-> "Craft",
     generic |-> "Generic", research |-> "Research", skill |-> "Skill",
     storage_item |-> "Storage_Item", trait |-> "Trait"]

\* One line of a report: its fixed text and the values formatted into it.
Line(text, str, number, attributes, path) ==
    [text |-> text, str |-> str, number |-> number, attributes |-> attributes,
     path |-> path]
Text(text) == Line(text, "", 0, <<>>, <<>>)

RECURSIVE sorted_by_id_value(_)
\* sorted(items, key=lambda x: x.id_value): ascending id_value, items of
\* equal id_value in their order in the list.
sorted_by_id_value(items) ==
    IF items = <<>> THEN <<>>
    ELSE LET least == Min({items[k].id_value : k \in 1..Len(items)})
             first == Min({k \in 1..Len(items) : items[k].id_value = least})
         IN <<items[first]>>
            \o sorted_by_id_value(SubSeq(items, 1, first - 1)
                                      \o SubSeq(items, first + 1, Len(items)))

\* The lines generate_bug_report writes for one unknown item.
ItemLines(item) ==
    << Line("- **ID {id_value}**", "", item.id_value, <<>>, <<>>),
       Line("  - XML Tag: <{xml_tag}>", item.xml_tag, 0, <<>>, <<>>),
       Line("  - Attributes: {xml_attributes}", "", 0, item.xml_attributes, <<>>),
       Line("  - Occurrences: {occurrences}", "", item.occurrences, <<>>, <<>>),
       Line("  - Location: {xml_path}", "", 0, <<>>, item.xml_path),
       Text("") >>

\* Mutant: the items of a category in the order of unknown_items.
TypeLines_unsorted(items, id_type) ==
    LET of_type == SelectSeq(items, LAMBDA x : x.id_type = id_type)
    IN IF of_type = <<>> THEN <<>>
       ELSE << Line("### {id_type.title()}s", title[id_type], 0, <<>>, <<>>), Text("") >>
            \o Flatten([k \in 1..Len(of_type) |-> ItemLines(of_type[k])])

\* The lines generate_bug_report writes for one category: by_type[id_type]
\* holds its items in the order of unknown_items, and they are written in
\* ascending id_value.
TypeLines(items, id_type) ==
    LET of_type == sorted_by_id_value(SelectSeq(items, LAMBDA x : x.id_type = id_type))
    IN IF of_type = <<>> THEN <<>>
       ELSE << Line("### {id_type.title()}s", title[id_type], 0, <<>>, <<>>), Text("") >>
            \o Flatten([k \in 1..Len(of_type) |-> ItemLines(of_type[k])])

\* generate_bug_report(result): the lines of the report.
generate_bug_report(res) ==
    IF res.unknown_items = <<>>
    THEN << Text("No unknown IDs detected - no bug report needed.") >>
    ELSE << Text("# Unknown IDs Detected in Save File"),
            Text(""),
            Text("**Save File:** {name}"),
            Text("**Scan Date:** {scan_timestamp}"),
            Line("**Unknown IDs Found:** {unknown_ids_count}", "",
                 res.unknown_ids_count, <<>>, <<>>),
            Text(""),
            Text("## Summary"),
            Text(""),
            Line("During analysis of a Space Haven save file, {unknown_ids_count} unknown ID(s) were detected",
                 "", res.unknown_ids_count, <<>>, <<>>),
            Text(""),
            Text("## Unknown IDs Detected"),
            Text("") >>
         \o Flatten([k \in 1..Len(id_types) |-> TypeLines(res.unknown_items, id_types[k])])
         \o << Text("## Next Steps"),
                Text(""),
                Text("Please investigate these IDs and update the reference data if they are valid new game items."),
                Text(""),
                Text("---"),
                Text("*This report was automatically generated by Space Haven Save Editor*") >>

\* ------------------------------------------------------------- save files
\* The attribute values of the save files scanned: "210", "999" and "x"; and
\* "1", the value skills and attributes also take.
Values == {<<50, 49, 48>>, <<57, 57, 57>>, <<120>>}
ONE == <<49>>

\* A part of a save file: elements whose parent is a position within the
\* part, 0 for the root of the document.  A character with one element in
\* one block of its pers element:
Character(block, tag, attrib) ==
    << Element("c", 0, << <<"entId", <<55>>>> >>), Element("pers", 1, <<>>),
       Element(block, 2, <<>>), Element(tag, 3, attrib) >>

\* A character with the attributes 210 and 999 and the skill 1.
TwoAttributesOneSkill ==
    << Element("c", 0, << <<"entId", <<55>>>> >>), Element("pers", 1, <<>>),
       Element("attr", 2, <<>>),
       Element("a", 3, << <<"id", <<50, 49, 48>>>> >>),
       Element("a", 3, << <<"id", <<57, 57, 57>>>> >>),
       Element("skills", 2, <<>>),
       Element("s", 6, << <<"id", ONE>> >>) >>

\* The parts save files are made of: a character with an attribute, a skill
\* (also one that carries an objId), a trait or a condition; a stored
\* item; an s element with an objId; a research and a craft element; an
\* element of another tag with an id, or with an id and a type; a character
\* attribute and a research element without an identifier; and a character
\* with two attributes and a skill.
Sections ==
    UNION {
        { Character("attr", "a", << <<"id", v>> >>),
          Character("skills", "s", << <<"id", v>> >>),
          Character("skills", "s", << <<"id", v>>, <<"objId", v>> >>),
          Character("traits", "t", << <<"id", v>> >>),
          Character("conditions", "c", << <<"id", v>> >>),
          << Element("item", 0, << <<"id", v>> >>) >>,
          << Element("s", 0, << <<"objId", v>> >>) >>,
          << Element("research", 0, << <<"id", v>> >>) >>,
          << Element("craft", 0, << <<"type", v>> >>) >>,
          << Element("feat", 0, << <<"id", v>> >>) >>,
          << Element("feat", 0, << <<"id", v>>, <<"type", v>> >>) >> } : v \in Values }
    \cup { Character("attr", "a", << <<"id", ONE>> >>),
           Character("skills", "s", << <<"id", ONE>> >>),
           Character("attr", "a", <<>>),
           TwoAttributesOneSkill,
           << Element("research", 0, << <<"name", <<120>>>> >>) >> }

RECURSIVE Document(_, _)
\* The document made of the elements so far and these parts after them.
Document(doc, sections) ==
    IF sections = <<>> THEN doc
    ELSE LET part == Head(sections)
             placed == [k \in 1..Len(part) |->
                          [part[k] EXCEPT !.parent = IF @ = 0 THEN 1 ELSE @ + Len(doc)]]
         IN Document(doc \o placed, Tail(sections))

\* The save files: a game element with up to MaxSections parts.
Documents ==
    { Document(<< Element("game", 0, << <<"idCounter", <<53>>>> >>) >>, sections) :
        sections \in UNION {[1..n -> Sections] : n \in 0..MaxSections} }

\* The unknown items a caller hands to add_unknown_item.
Items ==
    { UnknownItem(id_value, id_type, <<"//" \o xml_tag, <<>>, "">>, xml_tag, <<>>) :
        id_value \in {1, 999}, id_type \in {"attribute", "skill", "generic"},
        xml_tag \in {"a", "s"} }

\* ----------------------------------------------------------- scanner steps
\* scan_file(file_path): the file is parsed and the passes begin.
ScanFile ==
    /\ scan_pc = "idle"
    /\ \E doc \in Documents :
         /\ tree' = doc
         /\ work' = Visits(doc)
    /\ scan_pc' = "scanning"
    /\ result' = ScanResult
    /\ counted' = <<>>
    /\ UNCHANGED <<today, root, last, analyzer, calls>>

\* The next visit of a pass of scan_file.
ScanPass(pass) ==
    /\ scan_pc = "scanning"
    /\ work # <<>>
    /\ Head(work).pass = pass
    /\ LET v == Head(work)
           res == classify(tree, result, v)
       IN /\ result' = res.result
          /\ scan_pc' = IF res.outcome = "raised" THEN "raised" ELSE "scanning"
          /\ work' = IF res.outcome = "raised" THEN <<>> ELSE Tail(work)
          /\ counted' = IF res.outcome \in {"known", "unknown"}
                        THEN Append(counted, <<v.node, v.attr, v.pass>>) ELSE counted
          /\ last' = [NoCall EXCEPT !.op = "scan_file", !.visit = v,
                         !.preResult = result, !.outcome = res.outcome]
    /\ UNCHANGED <<today, root, tree, analyzer, calls>>

ScanCharacters == ScanPass("characters")
ScanStorage == ScanPass("storage")
ScanResearch == ScanPass("research")
ScanCrafts == ScanPass("crafts")
ScanGenericIds == ScanPass("generic")

\* scan_file returns the result.
ScanFileReturn ==
    /\ scan_pc = "scanning"
    /\ work = <<>>
    /\ scan_pc' = "done"
    /\ last' = [NoCall EXCEPT !.op = "scan_file", !.preResult = result,
                   !.outcome = "returned"]
    /\ UNCHANGED <<today, root, tree, work, result, counted, analyzer, calls>>

\* Scanning: one save file is scanned, visit by visit.
NextScan ==
    \/ ScanFile
    \/ ScanCharacters
    \/ ScanStorage
    \/ ScanResearch
    \/ ScanCrafts
    \/ ScanGenericIds
    \/ ScanFileReturn

\* The first of the calendar dates.
FirstDate == {d \in Dates : \A e \in Dates : d <= e}

SpecScan == InitIn(FirstDate) /\ [][NextScan]_vars

\* A call of add_unknown_item on the ScanResult a caller holds.
AddUnknownItem ==
    /\ scan_pc = "idle"
    /\ Occurrences(result) < MaxSightings
    /\ \E item \in Items :
         /\ result' = add_unknown_item(result, item)
         /\ last' = [NoCall EXCEPT !.op = "add_unknown_item", !.item = item,
                        !.preResult = result]
    /\ UNCHANGED <<today, root, tree, work, scan_pc, counted, analyzer, calls>>

\* A call of generate_bug_report on that ScanResult.
GenerateBugReport ==
    /\ scan_pc = "idle"
    /\ last' = [NoCall EXCEPT !.op = "generate_bug_report", !.preResult = result,
                   !.report = generate_bug_report(result)]
    /\ UNCHANGED <<today, root, scanner, analyzer, calls>>

\* Reporting: unknown items are added to a ScanResult and reported.
NextItems ==
    \/ AddUnknownItem
    \/ GenerateBugReport

SpecItems == InitIn(FirstDate) /\ [][NextItems]_vars

\* -------------------------------------------------- SaveFileVersionAnalyzer
\* Whether element i is an ancestor of element j.
RECURSIVE IsAncestor(_, _, _)
IsAncestor(doc, i, j) ==
    IF doc[j].parent = 0 THEN FALSE
    ELSE doc[j].parent = i \/ IsAncestor(doc, i, doc[j].parent)

\* elem.findall(".//tag") of element i: every element below it with the tag.
findall_below(doc, i, tag) ==
    Ordered({j \in 1..Len(doc) : doc[j].tag = tag /\ IsAncestor(doc, i, j)})

\* list(elem.attrib.keys())
Keys(e) == [k \in 1..Len(e.attrib) |-> e.attrib[k][1]]

\* dict(pairs): the keys of a list of (key, value) pairs, each with the
\* value of its last pair.
Dict(pairs) ==
    [key \in {pairs[k][1] : k \in 1..Len(pairs)} |->
        pairs[CHOOSE k \in 1..Len(pairs) :
                /\ pairs[k][1] = key
                /\ \A m \in (k + 1)..Len(pairs) : pairs[m][1] # key][2]]

\* "Ship", "Character", "Alpha 20+" and "Alpha <20 (inferred)"
SHIP == <<83, 104, 105, 112>>
CHARACTER == <<67, 104, 97, 114, 97, 99, 116, 101, 114>>
ALPHA_20 == <<65, 108, 112, 104, 97, 32, 50, 48, 43>>
ALPHA_BEFORE_20 ==
    <<65, 108, 112, 104, 97, 32, 60, 50, 48, 32, 40, 105, 110, 102, 101, 114,
      114, 101, 100, 41>>

\* _infer_version_from_structure: "Alpha 20+" when gamedata has a
\* galaxyCount or an l element of starmap/systems has a gen attribute.
infer_version_from_structure(doc) ==
    LET gamedata == find(doc, 1, "gamedata")
        starmap == find(doc, 1, "starmap")
        systems == IF starmap = 0 THEN 0 ELSE find(doc, starmap, "systems")
        ls == IF systems = 0 THEN <<>> ELSE findall(doc, systems, "l")
    IN IF gamedata # 0 /\ HasAttrib(doc[gamedata], "galaxyCount") THEN ALPHA_20
       ELSE IF \E k \in 1..Len(ls) : HasAttrib(doc[ls[k]], "gen") THEN ALPHA_20
       ELSE ALPHA_BEFORE_20

\* The first of these attributes an element has, 0 when it has none.
FirstAttrib(e, names) ==
    LET having == {k \in 1..Len(names) : HasAttrib(e, names[k])}
    IN IF having = {} THEN 0 ELSE Min(having)

\* Mutant: the attributes of gamedata are looked at before the root's.
extract_version_gamedata_first(doc) ==
    LET root_names == <<"version", "gameVersion", "saveVersion", "alpha">>
        gamedata_names == <<"version", "gameVersion">>
        gamedata == find(doc, 1, "gamedata")
        in_root == FirstAttrib(doc[1], root_names)
        in_gamedata == IF gamedata = 0 THEN 0
                       ELSE FirstAttrib(doc[gamedata], gamedata_names)
    IN IF in_gamedata # 0
       THEN Get(doc[gamedata], gamedata_names[in_gamedata], <<>>)
       ELSE IF in_root # 0 THEN Get(doc[1], root_names[in_root], <<>>)
       ELSE infer_version_from_structure(doc)

\* _extract_version: a version attribute of the root, else one of gamedata,
\* else the version inferred from the structure.
extract_version(doc) ==
    LET root_names == <<"version", "gameVersion", "saveVersion", "alpha">>
        gamedata_names == <<"version", "gameVersion">>
        gamedata == find(doc, 1, "gamedata")
        in_root == FirstAttrib(doc[1], root_names)
        in_gamedata == IF gamedata = 0 THEN 0
                       ELSE FirstAttrib(doc[gamedata], gamedata_names)
    IN IF in_root # 0 THEN Get(doc[1], root_names[in_root], <<>>)
       ELSE IF in_gamedata # 0
       THEN Get(doc[gamedata], gamedata_names[in_gamedata], <<>>)
       ELSE infer_version_from_structure(doc)

\* The children of an element, and the tags of a list of elements in the
\* order each first occurs.
ChildrenOf(doc, i) == Ordered({j \in 1..Len(doc) : doc[j].parent = i})
FirstOfTag(doc, elems) ==
    SelectSeq(elems, LAMBDA j :
        \A m \in 1..Len(elems) : (doc[elems[m]].tag = doc[j].tag) => elems[m] >= j)

\* _analyze_structure's default max_depth
max_depth == 3

RECURSIVE analyze_node_truncated_at_max_depth(_, _, _)
\* Mutant: a node at max_depth is {"_truncated": True} already.
analyze_node_truncated_at_max_depth(doc, node, depth) ==
    IF depth >= max_depth
    THEN [truncated |-> TRUE, tag |-> "", attributes |-> <<>>,
          child_counts |-> <<>>, children |-> <<>>]
    ELSE LET children == ChildrenOf(doc, node)
             firsts == FirstOfTag(doc, children)
         IN [truncated |-> FALSE,
             tag |-> doc[node].tag,
             attributes |-> Keys(doc[node]),
             child_counts |->
                [k \in 1..Len(firsts) |->
                    <<doc[firsts[k]].tag,
                      Cardinality({m \in 1..Len(children) :
                                     doc[children[m]].tag = doc[firsts[k]].tag})>>],
             children |->
                [k \in 1..Len(firsts) |->
                    analyze_node_truncated_at_max_depth(doc, firsts[k], depth + 1)]]

RECURSIVE analyze_node(_, _, _)
\* _analyze_node(node, depth): the tag, the attribute names, the number of
\* children of each tag, and the summary of the first child of each tag; a
\* node deeper than max_depth is {"_truncated": True}.
analyze_node(doc, node, depth) ==
    IF depth > max_depth
    THEN [truncated |-> TRUE, tag |-> "", attributes |-> <<>>,
          child_counts |-> <<>>, children |-> <<>>]
    ELSE LET children == ChildrenOf(doc, node)
             firsts == FirstOfTag(doc, children)
         IN [truncated |-> FALSE,
             tag |-> doc[node].tag,
             attributes |-> Keys(doc[node]),
             child_counts |->
                [k \in 1..Len(firsts) |->
                    <<doc[firsts[k]].tag,
                      Cardinality({m \in 1..Len(children) :
                                     doc[children[m]].tag = doc[firsts[k]].tag})>>],
             children |->
                [k \in 1..Len(firsts) |-> analyze_node(doc, firsts[k], depth + 1)]]

\* _analyze_structure(root)
analyze_structure(doc) == analyze_node(doc, 1, 0)

\* _extract_entity_types: the type of every entity below a sector, "Ship"
\* when there is a ship element and "Character" when there is a character
\* element.
extract_entity_types(doc) ==
    LET sectors == findall_descendants(doc, "sector")
        entities == UNION {Range(findall_below(doc, sectors[k], "entity")) :
                              k \in 1..Len(sectors)}
    IN {Get(doc[j], "type", <<>>) : j \in {e \in entities : Get(doc[e], "type", <<>>) # <<>>}}
       \cup (IF findall_descendants(doc, "ship") # <<>> THEN {SHIP} ELSE {})
       \cup (IF findall_descendants(doc, "character") # <<>> THEN {CHARACTER} ELSE {})

\* _extract_facilities_and_items: the types of the facility elements, and
\* the names of the identifiers of facilities and then of items (an item's
\* name is its type or else its name), a later element replacing an
\* earlier one of the same id.
extract_facilities_and_items(doc) ==
    LET facilities == findall_descendants(doc, "facility")
        items == findall_descendants(doc, "item")
        fac_type(j) == Get(doc[j], "type", <<>>)
        fac_id(j) == Get(doc[j], "id", <<>>)
        item_type(j) == IF Get(doc[j], "type", <<>>) # <<>>
                        THEN Get(doc[j], "type", <<>>) ELSE Get(doc[j], "name", <<>>)
        named_facilities ==
            SelectSeq(facilities, LAMBDA j : fac_id(j) # <<>> /\ fac_type(j) # <<>>)
        named_items ==
            SelectSeq(items, LAMBDA j : fac_id(j) # <<>> /\ item_type(j) # <<>>)
    IN [facility_types |->
            {fac_type(facilities[k]) : k \in 1..Len(facilities)} \ {<<>>},
        item_ids |->
            Dict([k \in 1..Len(named_facilities) |->
                    <<fac_id(named_facilities[k]), fac_type(named_facilities[k])>>]
                 \o [k \in 1..Len(named_items) |->
                    <<fac_id(named_items[k]), item_type(named_items[k])>>])]

\* Whether analyze_save_file raises: int() of an idCounter of the root or of
\* a sectorCount of gamedata that is not empty and not a number.
analyze_raises(doc) ==
    LET gamedata == find(doc, 1, "gamedata")
        id_counter_str == Get(doc[1], "idCounter", <<>>)
        sector_count_str == IF gamedata = 0 THEN <<>>
                            ELSE Get(doc[gamedata], "sectorCount", <<>>)
    IN \/ id_counter_str # <<>> /\ int(id_counter_str) = None
       \/ sector_count_str # <<>> /\ int(sector_count_str) = None

\* analyze_save_file(file_path) of a file that parses to doc and does not
\* make it raise: the SaveFileInfo.  An absent attribute and an empty one
\* are both the empty string here: the code tests them for truth only.
analyze_save_file(doc) ==
    LET gamedata == find(doc, 1, "gamedata")
        id_counter_str == Get(doc[1], "idCounter", <<>>)
        sector_count_str == IF gamedata = 0 THEN <<>>
                            ELSE Get(doc[gamedata], "sectorCount", <<>>)
        extracted == extract_facilities_and_items(doc)
    IN [root_attributes |-> doc[1].attrib,
        game_mode |-> Get(doc[1], "mode", <<>>),
        id_counter |-> IF id_counter_str # <<>> THEN int(id_counter_str) ELSE None,
        version |-> extract_version(doc),
        gamedata_attributes |-> IF gamedata = 0 THEN <<>> ELSE doc[gamedata].attrib,
        sector_count |-> IF sector_count_str # <<>> THEN int(sector_count_str) ELSE None,
        xml_structure |-> analyze_structure(doc),
        entity_types |-> extract_entity_types(doc),
        facility_types |-> extracted.facility_types,
        item_ids |-> extracted.item_ids]

\* One entry of missing_elements or new_elements: its label and the
\* attribute name or the type it names.
Named(label, name, value) == [label |-> label, name |-> name, value |-> value]

\* One entry of structural_differences.
Difference(kind, path, tag) == [kind |-> kind, path |-> path, tag |-> tag]

\* The orders a loop over a set can take its elements in.
Orders(S) ==
    {s \in [1..Cardinality(S) -> S] :
        \A i, j \in 1..Cardinality(S) : s[i] = s[j] => i = j}

\* The tags of _child_counts of a summary.
ChildTags(summary) ==
    {summary.child_counts[k][1] : k \in 1..Len(summary.child_counts)}

\* _compare_structures(baseline, comparison, result, path): the lists it
\* can append to structural_differences, one for each order its loops take
\* the missing and the new tags in.
compare_structures(baseline, other, path) ==
    { [k \in 1..Len(missing_tags) |->
          Difference("Missing element at", path, missing_tags[k])]
      \o [k \in 1..Len(new_tags) |->
          Difference("New element at", path, new_tags[k])] :
        missing_tags \in Orders(ChildTags(baseline) \ ChildTags(other)),
        new_tags \in Orders(ChildTags(other) \ ChildTags(baseline)) }

\* One note of compatibility_notes: its text and the number in it.
Note(text, number) == [text |-> text, number |-> number]

\* Mutant: new_elements count against the compatible note too.
generate_compatibility_notes_consulting_new_elements(cmp) ==
    LET notes ==
          (IF cmp.missing_elements # <<>>
           THEN << Note("The older save is missing {n} elements present in the newer version.",
                        Len(cmp.missing_elements)) >>
           ELSE <<>>)
          \o (IF cmp.id_changes # <<>>
              THEN << Note("Found {n} item/facility ID changes between versions.",
                           Len(cmp.id_changes)) >>
              ELSE <<>>)
          \o (IF cmp.structural_differences # <<>>
              THEN << Note("Detected {n} structural differences in the XML format.",
                           Len(cmp.structural_differences)) >>
              ELSE <<>>)
          \o (IF /\ cmp.missing_elements = <<>>
                 /\ cmp.new_elements = <<>>
                 /\ cmp.id_changes = <<>>
                 /\ cmp.structural_differences = <<>>
              THEN << Note("Save files appear to be structurally compatible.", 0) >>
              ELSE <<>>)
    IN [cmp EXCEPT !.compatibility_notes = @ \o notes]

\* _generate_compatibility_notes(comparison)
generate_compatibility_notes(cmp) ==
    LET notes ==
          (IF cmp.missing_elements # <<>>
           THEN << Note("The older save is missing {n} elements present in the newer version.",
                        Len(cmp.missing_elements)) >>
           ELSE <<>>)
          \o (IF cmp.id_changes # <<>>
              THEN << Note("Found {n} item/facility ID changes between versions.",
                           Len(cmp.id_changes)) >>
              ELSE <<>>)
          \o (IF cmp.structural_differences # <<>>
              THEN << Note("Detected {n} structural differences in the XML format.",
                           Len(cmp.structural_differences)) >>
              ELSE <<>>)
          \o (IF /\ cmp.missing_elements = <<>>
                 /\ cmp.id_changes = <<>>
                 /\ cmp.structural_differences = <<>>
              THEN << Note("Save files appear to be structurally compatible.", 0) >>
              ELSE <<>>)
    IN [cmp EXCEPT !.compatibility_notes = @ \o notes]

\* The attribute names of a list of (name, value) pairs.
AttribNames(attrib) == {attrib[k][1] : k \in 1..Len(attrib)}

\* Mutant: a triple for every identifier both files have.
id_changes_of_every_common_id(baseline_ids, comparison_ids) ==
    { [k \in 1..Len(ids) |->
          <<ids[k], comparison_ids[ids[k]], baseline_ids[ids[k]]>>] :
        ids \in Orders(DOMAIN baseline_ids \cap DOMAIN comparison_ids) }

\* The loop of compare_saves over common_ids: the lists of id_changes it
\* can build, a triple (id, name in the comparison, name in the baseline)
\* for every identifier of both files whose names differ, in the order
\* the loop takes them.
id_changes(baseline_ids, comparison_ids) ==
    LET common_ids == DOMAIN baseline_ids \cap DOMAIN comparison_ids
        changed_ids == {id \in common_ids : baseline_ids[id] # comparison_ids[id]}
    IN { [k \in 1..Len(ids) |->
            <<ids[k], comparison_ids[ids[k]], baseline_ids[ids[k]]>>] :
          ids \in Orders(changed_ids) }

\* compare_saves past the analysis of both files: every VersionComparison
\* it can return, one for each choice of the orders its loops take the
\* elements of their sets in.
compare_infos(baseline_info, comparison_info) ==
    LET baseline_attrs == AttribNames(baseline_info.root_attributes)
        comparison_attrs == AttribNames(comparison_info.root_attributes)
    IN { generate_compatibility_notes(
           [VersionComparison(baseline_info.version, comparison_info.version)
              EXCEPT
                !.missing_elements =
                    [k \in 1..Len(ma) |-> Named("Root attribute: ", ma[k], <<>>)]
                    \o [k \in 1..Len(me) |-> Named("Entity type: ", "", me[k])]
                    \o [k \in 1..Len(mf) |-> Named("Facility type: ", "", mf[k])],
                !.new_elements =
                    [k \in 1..Len(na) |-> Named("Root attribute: ", na[k], <<>>)]
                    \o [k \in 1..Len(ne) |-> Named("Entity type: ", "", ne[k])]
                    \o [k \in 1..Len(nf) |-> Named("Facility type: ", "", nf[k])],
                !.id_changes = changes,
                !.structural_differences = differences]) :
         ma \in Orders(baseline_attrs \ comparison_attrs),
         na \in Orders(comparison_attrs \ baseline_attrs),
         me \in Orders(baseline_info.entity_types \ comparison_info.entity_types),
         ne \in Orders(comparison_info.entity_types \ baseline_info.entity_types),
         mf \in Orders(baseline_info.facility_types \ comparison_info.facility_types),
         nf \in Orders(comparison_info.facility_types \ baseline_info.facility_types),
         changes \in id_changes(baseline_info.item_ids, comparison_info.item_ids),
         differences \in compare_structures(baseline_info.xml_structure,
                                            comparison_info.xml_structure,
                                            <<"root">>) }

\* ------------------------------------------------------ comparison report
\* The characters of the attribute names, the tags and the labels that the
\* entries of a comparison are formatted with.
Chars ==
    "a" :> <<97>>
    @@ "b" :> <<98>>
    @@ "facility" :> <<102, 97, 99, 105, 108, 105, 116, 121>>
    @@ "item" :> <<105, 116, 101, 109>>
    @@ "sector" :> <<115, 101, 99, 116, 111, 114>>
    @@ "gamedata" :> <<103, 97, 109, 101, 100, 97, 116, 97>>
    @@ "idCounter" :> <<105, 100, 67, 111, 117, 110, 116, 101, 114>>
    @@ "root" :> <<114, 111, 111, 116>>
    @@ "Root attribute: " :> <<82, 111, 111, 116, 32, 97, 116, 116, 114, 105, 98, 117, 116, 101, 58, 32>>
    @@ "Entity type: " :> <<69, 110, 116, 105, 116, 121, 32, 116, 121, 112, 101, 58, 32>>
    @@ "Facility type: " :> <<70, 97, 99, 105, 108, 105, 116, 121, 32, 116, 121, 112, 101, 58, 32>>
    @@ "Missing element at" :> <<77, 105, 115, 115, 105, 110, 103, 32, 101, 108, 101, 109, 101, 110, 116, 32, 97, 116>>
    @@ "New element at" :> <<78, 101, 119, 32, 101, 108, 101, 109, 101, 110, 116, 32, 97, 116>>
    @@ "" :> <<>>

\* f"{label}{name}": an entry of missing_elements or new_elements as the
\* string compare_saves builds.
NamedStr(entry) == Chars[entry.label] \o Chars[entry.name] \o entry.value

\* f"{kind} {path}: <{tag}> ...": an entry of structural_differences up to
\* its tag; what follows the tag is the same for all entries of one kind.
DifferenceStr(entry) ==
    Chars[entry.kind] \o <<32>> \o Chars[entry.path[1]] \o <<58, 32, 60>>
        \o Chars[entry.tag] \o <<62>>

\* A triple of id_changes as one string that orders as the tuple does: its
\* three strings with the code 0 between them.
TripleStr(triple) == triple[1] \o <<0>> \o triple[2] \o <<0>> \o triple[3]

RECURSIVE SortedIndexes(_, _)
\* The positions in S of a list of strings, in ascending order of the
\* strings, equal strings in the order of the list.
SortedIndexes(strs, S) ==
    IF S = {} THEN <<>>
    ELSE LET least == CHOOSE k \in S :
                        \A m \in S \ {k} :
                            \/ Less(strs[k], strs[m])
                            \/ strs[k] = strs[m] /\ k < m
         IN <<least>> \o SortedIndexes(strs, S \ {least})

\* sorted(items), where strs are the strings the items are ordered by.
sorted_items(items, strs) ==
    LET order == SortedIndexes(strs, 1..Len(items))
    IN [k \in 1..Len(items) |-> items[order[k]]]

\* "Unknown", shown for a version that is None or empty.
UNKNOWN_VERSION == <<85, 110, 107, 110, 111, 119, 110>>

\* A line of the comparison report that shows one entry.
Entry(text, entry) == Line(text, "", 0, <<entry>>, <<>>)

\* The lines of generate_comparison_report below the heading Migration
\* Recommendations.
Recommendations(cmp) ==
    IF cmp.missing_elements # <<>> \/ cmp.structural_differences # <<>>
    THEN << Text("### Caution Required"),
            Text(""),
            Text("This older save file has significant differences from the current game version. Consider:"),
            Text(""),
            Text("1. **Backup First:** Always keep the original save file"),
            Text("2. **Test Carefully:** Load the save and verify all systems work"),
            Text("3. **Expect Issues:** Some features may not work correctly"),
            Text("4. **Manual Fixes:** You may need to manually add/fix elements"),
            Text("") >>
    ELSE << Text("The save files appear compatible. Migration should be relatively safe, but always backup first."),
            Text("") >>

\* One section of the report: nothing for an empty list, else its heading
\* lines, a line for each item in sorted order, and an empty line.
Section(heading, text, items, strs) ==
    IF items = <<>> THEN <<>>
    ELSE heading
         \o [k \in 1..Len(items) |-> Entry(text, sorted_items(items, strs)[k])]
         \o << Text("") >>

\* generate_comparison_report(comparison) at the time now: the lines of the
\* report it returns.  No output_path is given, as in main.
generate_comparison_report(cmp, now) ==
    << Text("# Space Haven Save File Version Comparison Report"),
       Text(""),
       Line("**Generated:** {now}", "", now, <<>>, <<>>),
       Text(""),
       Text("## Files Compared"),
       Text(""),
       Text("- **Baseline (newer):** {baseline_file}"),
       Line("  - Version: {baseline_version or Unknown}", "", 0,
            IF cmp.baseline_version # <<>> THEN cmp.baseline_version ELSE UNKNOWN_VERSION, <<>>),
       Text("- **Comparison (older):** {comparison_file}"),
       Line("  - Version: {comparison_version or Unknown}", "", 0,
            IF cmp.comparison_version # <<>> THEN cmp.comparison_version ELSE UNKNOWN_VERSION, <<>>),
       Text(""),
       Text("## Summary"),
       Text("") >>
    \o [k \in 1..Len(cmp.compatibility_notes) |->
          Line(cmp.compatibility_notes[k].text, "", cmp.compatibility_notes[k].number,
               <<>>, <<>>)]
    \o << Text("") >>
    \o Section(<< Text("## Missing Elements in Older Save"), Text(""),
                  Text("The following elements are present in the newer version but missing in the older save:"),
                  Text("") >>,
               "- {element}", cmp.missing_elements,
               [k \in 1..Len(cmp.missing_elements) |-> NamedStr(cmp.missing_elements[k])])
    \o Section(<< Text("## Elements Only in Older Save"), Text(""),
                  Text("These elements exist in the older save but not in the newer version (possibly deprecated):"),
                  Text("") >>,
               "- {element}", cmp.new_elements,
               [k \in 1..Len(cmp.new_elements) |-> NamedStr(cmp.new_elements[k])])
    \o Section(<< Text("## Item/Facility ID Changes"), Text(""),
                  Text("The following IDs map to different items between versions:"),
                  Text(""),
                  Text("| ID | Old Version | New Version |"),
                  Text("|----|-------------|-------------|") >>,
               "| {item_id} | {old_name} | {new_name} |", cmp.id_changes,
               [k \in 1..Len(cmp.id_changes) |-> TripleStr(cmp.id_changes[k])])
    \o Section(<< Text("## Structural Differences"), Text(""),
                  Text("XML structure differences detected:"), Text("") >>,
               "- {diff}", cmp.structural_differences,
               [k \in 1..Len(cmp.structural_differences) |->
                   DifferenceStr(cmp.structural_differences[k])])
    \o << Text("## Migration Recommendations"), Text("") >>
    \o Recommendations(cmp)

\* ------------------------------------------------------ analyzer's files
\* The parts the save files compared are made of: an element a, empty, with
\* a child b, and with descendants down to an e; a facility with an id and a
\* type; an item with the same id and a name; that facility with two items
\* of other ids after it, which have a type; that item with an item after
\* it, which has a name and an empty type; a sector with an entity; a
\* gamedata element with a sectorCount and a version; and one with the
\* sectorCount "x".
Parts ==
    { << Element("a", 0, <<>>) >>,
      << Element("a", 0, <<>>), Element("b", 1, <<>>) >>,
      << Element("a", 0, <<>>), Element("b", 1, <<>>), Element("c", 2, <<>>),
         Element("d", 3, <<>>), Element("e", 4, <<>>) >>,
      << Element("facility", 0, << <<"id", <<50, 49, 48>>>>, <<"type", <<120>>>> >>) >>,
      << Element("item", 0, << <<"id", <<50, 49, 48>>>>, <<"name", <<57, 57, 57>>>> >>) >>,
      << Element("facility", 0, << <<"id", <<50, 49, 48>>>>, <<"type", <<120>>>> >>),
         Element("item", 0, << <<"id", <<57, 57, 57>>>>, <<"type", <<120>>>> >>),
         Element("item", 0, << <<"id", <<49>>>>, <<"type", <<120>>>> >>) >>,
      << Element("item", 0, << <<"id", <<50, 49, 48>>>>, <<"name", <<57, 57, 57>>>> >>),
         Element("item", 0, << <<"id", <<57, 57, 57>>>>, <<"name", <<120>>>>,
                               <<"type", <<>>>> >>) >>,
      << Element("sector", 0, <<>>), Element("entity", 1, << <<"type", <<120>>>> >>) >>,
      << Element("gamedata", 0,
                 << <<"sectorCount", <<53>>>>, <<"version", <<57, 57, 57>>>> >>) >>,
      << Element("gamedata", 0, << <<"sectorCount", <<120>>>> >>) >> }

\* The root elements of those files: a game element without attributes,
\* with the idCounter "5", and with the idCounter "x".
Roots ==
    { << Element("game", 0, <<>>) >>,
      << Element("game", 0, << <<"idCounter", <<53>>>> >>) >>,
      << Element("game", 0, << <<"idCounter", <<120>>>> >>) >> }

\* The save files of up to n parts.
SaveFiles(n) ==
    { Document(r, parts) :
        r \in Roots, parts \in UNION {[1..m -> Parts] : m \in 0..n} }

\* The paths of the two save files compared.
BASELINE == "baseline"
COMPARISON == "comparison"

\* analyzed_saves[str(file_path)] = info
Cache(saves, path, info) ==
    [p \in DOMAIN saves \cup {path} |-> IF p = path THEN info ELSE saves[p]]

\* -------------------------------------------------------- analyzer steps
\* analyze_save_file(file_path) of one save file: the analysis is cached and
\* returned, or int() raises and nothing is cached.
AnalyzeSaveFile ==
    /\ analyzer_pc = "idle"
    /\ \E doc \in SaveFiles(MaxParts) :
         /\ analyzed_saves' =
                IF analyze_raises(doc) THEN analyzed_saves
                ELSE Cache(analyzed_saves, BASELINE, analyze_save_file(doc))
         /\ analyzer_pc' = IF analyze_raises(doc) THEN "raised" ELSE "returned"
         /\ last' = [NoCall EXCEPT !.op = "analyze_save_file", !.baseline = doc]
    /\ UNCHANGED <<today, root, scanner, comparison, calls>>

\* compare_saves(baseline_path, comparison_path): both files are analyzed,
\* the baseline first, and compared; when an analysis raises, so does
\* the comparison, and what was analyzed before stays cached.
CompareSaves ==
    /\ analyzer_pc = "idle"
    /\ \E n \in 0..MaxParts :
       \E baseline \in SaveFiles(n), other \in SaveFiles(MaxParts - n) :
       \E raised \in {analyze_raises(baseline) \/ analyze_raises(other)} :
       \E first \in
            {IF analyze_raises(baseline) THEN analyzed_saves
             ELSE Cache(analyzed_saves, BASELINE, analyze_save_file(baseline))} :
         /\ last' = [NoCall EXCEPT !.op = "compare_saves",
                        !.baseline = baseline, !.other = other]
         /\ IF raised
            THEN /\ analyzed_saves' = first
                 /\ analyzer_pc' = "raised"
                 /\ UNCHANGED comparison
            ELSE \E second \in {Cache(first, COMPARISON, analyze_save_file(other))} :
                 /\ analyzed_saves' = second
                 /\ analyzer_pc' = "returned"
                 /\ comparison' \in
                      compare_infos(second[BASELINE], second[COMPARISON])
    /\ UNCHANGED <<today, root, scanner, calls>>

\* generate_comparison_report(result) of the comparison compare_saves has
\* returned.
GenerateComparisonReport ==
    /\ last.op = "compare_saves"
    /\ analyzer_pc = "returned"
    /\ last' = [last EXCEPT !.op = "generate_comparison_report",
                   !.report = generate_comparison_report(comparison, today)]
    /\ UNCHANGED <<today, root, scanner, analyzer, calls>>

\* The command line tool ends: main makes a new analyzer at its next run.
AnalyzerExit ==
    /\ analyzer_pc # "idle"
    /\ analyzed_saves' = <<>>
    /\ comparison' = VersionComparison(None, None)
    /\ analyzer_pc' = "idle"
    /\ last' = NoCall
    /\ UNCHANGED <<today, root, scanner, calls>>

\* Comparing: save files are analyzed and compared.
NextCompare ==
    \/ AnalyzeSaveFile
    \/ CompareSaves
    \/ GenerateComparisonReport
    \/ AnalyzerExit

SpecCompare == InitIn(FirstDate) /\ [][NextCompare]_vars

\* ------------------------------------------------- files with a version
\* The attributes of these names among the pairs.
Chosen(pairs, names) == SelectSeq(pairs, LAMBDA pair : pair[1] \in names)

\* The version attributes a root element can carry, and the attributes of
\* gamedata that _extract_version and _infer_version_from_structure look
\* at: each with a value of its own, "1" to "7".
RootVersions ==
    << <<"version", <<49>>>>, <<"gameVersion", <<50>>>>,
       <<"saveVersion", <<51>>>>, <<"alpha", <<52>>>> >>
GamedataVersions ==
    << <<"version", <<53>>>>, <<"gameVersion", <<54>>>>, <<"galaxyCount", <<55>>>> >>

\* No gamedata element, or one with some of those attributes.
Gamedatas ==
    { <<>> } \cup
    { << Element("gamedata", 0, Chosen(GamedataVersions, names)) >> :
        names \in SUBSET {"version", "gameVersion", "galaxyCount"} }

\* No starmap element, an empty one, one with an empty systems element, and
\* one whose systems element has two l elements: neither, the first, the
\* second, or both with a gen attribute.
Starmaps ==
    { <<>>,
      << Element("starmap", 0, <<>>) >>,
      << Element("starmap", 0, <<>>), Element("systems", 1, <<>>) >> }
    \cup { << Element("starmap", 0, <<>>), Element("systems", 1, <<>>),
              Element("l", 2, first), Element("l", 2, second) >> :
            first \in {<<>>, << <<"gen", <<49>>>> >>},
            second \in {<<>>, << <<"gen", <<49>>>> >>} }

\* The save files _extract_version is applied to: a game element with some
\* of the version attributes, then gamedata, then starmap.
VersionFiles ==
    { Document(<< Element("game", 0, Chosen(RootVersions, names)) >>,
               <<gamedata, starmap>>) :
        names \in SUBSET {"version", "gameVersion", "saveVersion", "alpha"},
        gamedata \in Gamedatas, starmap \in Starmaps }

\* _extract_version(root) of the root of one of these files.
ExtractVersion ==
    /\ Idle
    /\ \E doc \in VersionFiles :
         last' = [NoCall EXCEPT !.op = "_extract_version", !.baseline = doc,
                     !.version = extract_version(doc)]
    /\ UNCHANGED <<today, root, scanner, analyzer, calls>>

\* Versions: the version of a save file is extracted.
NextVersion ==
    \/ ExtractVersion
    \/ Return

SpecVersion == InitIn(FirstDate) /\ [][NextVersion]_vars

\* ------------------------------------------------------ concurrent calls
\* create_backup from its listing of today's archives on: the first of them
\* is returned, or the archive is written under the name the listing gives.
create_backup_listed(r, today_str, existing_today, src, force_new, io) ==
    LET version == get_save_version(src)
        next_n == Len(existing_today) + 1
        name == backup_name(today_str, next_n, version)
    IN IF existing_today # <<>> /\ ~force_new
       THEN [root |-> r, ret |-> Some(existing_today[1]), opened |-> None]
       ELSE CASE io.kind = "ok" ->
                    [root |-> WriteFile(r, name, [entries |-> io.written, valid |-> TRUE]),
                     ret |-> Some(name), opened |-> Some(name)]
              [] io.kind = "open" ->
                    [root |-> r, ret |-> None, opened |-> Some(name)]
              [] OTHER ->
                    [root |-> WriteFile(r, name, [entries |-> io.written, valid |-> io.valid]),
                     ret |-> None, opened |-> Some(name)]

\* The save folders of the concurrent calls: one that does not exist, one
\* of version 1 and one of version 2.
CallSources ==
    {s \in Sources : ~s.exists \/ get_save_version(s) \in {Some(<<49>>), Some(<<50>>)}}

\* A caller enters create_backup: the source folder is checked, the version
\* and the date are read and today's archives are listed.
ListExisting(w) ==
    /\ calls.call[w].pc = "idle"
    /\ \E src \in CallSources, force_new \in BOOLEAN :
         calls' =
           [calls EXCEPT
              !.before = IF \A v \in Callers : calls.call[v].pc = "idle"
                         THEN root ELSE @,
              !.call[w] =
                 IF ~src.exists
                 THEN [NotCalled EXCEPT !.pc = "done", !.src = src, !.force = force_new]
                 ELSE [NotCalled EXCEPT
                         !.pc = "listed", !.src = src, !.force = force_new,
                         !.today_str = strftime(today),
                         !.existing_today =
                             find_backups_for_date(root, strftime(today))]]
    /\ UNCHANGED <<today, root, last, scanner, analyzer>>

\* The caller goes on from its listing: it returns the first of today's
\* archives, or writes its archive, without error, and returns its path.
WriteArchive(w) ==
    /\ calls.call[w].pc = "listed"
    /\ LET c == calls.call[w]
           io == CHOOSE i \in IOs(c.src) : i.kind = "ok"
           res == create_backup_listed(root, c.today_str, c.existing_today,
                                       c.src, c.force, io)
       IN /\ Cardinality(Names(res.root)) <= MaxArchives
          /\ root' = res.root
          /\ calls' =
                [calls EXCEPT
                   !.overlapped =
                       @ \/ \E v \in Callers \ {w} : calls.call[v].pc = "listed",
                   !.call[w] = [c EXCEPT !.pc = "done", !.ret = res.ret,
                                         !.opened = res.opened]]
    /\ UNCHANGED <<today, last, scanner, analyzer>>

\* The calls that were made have returned and their callers go on.
CallsReturn ==
    /\ \A w \in Callers : calls.call[w].pc \in {"idle", "done"}
    /\ \E w \in Callers : calls.call[w].pc = "done"
    /\ calls' = [before |-> <<>>, overlapped |-> FALSE,
                 call |-> [w \in Callers |-> NotCalled]]
    /\ UNCHANGED <<today, root, last, scanner, analyzer>>

\* Between the calls the user deletes one listed archive.
DeleteBetweenCalls ==
    /\ \A w \in Callers : calls.call[w].pc = "idle"
    /\ \E backup_path \in listed_backups(root) :
         root' = delete_selected(root, backup_path, TRUE)
    /\ UNCHANGED <<today, last, scanner, analyzer, calls>>

\* Concurrent callers: each lists and then writes, in any interleaving.
NextCalls ==
    \/ \E w \in Callers : ListExisting(w)
    \/ \E w \in Callers : WriteArchive(w)
    \/ CallsReturn
    \/ DeleteBetweenCalls

SpecCalls == InitIn(FirstDate) /\ [][NextCalls]_vars

\* ------------------------------------------------------ automatic backup
\* The automatic backup of the editor when a save folder is loaded, with
\* backup_count as the settings dialog lets it be set: create_backup of
\* the folder; when it returns a path and there are more backup dates than
\* backup_count, a dry run of the prune, the question to the user, and on
\* the answer yes the prune, in which unlink raises for the paths in fails.
AutomaticBackup ==
    /\ Idle
    /\ \E src \in GoodSources, backup_count \in 1..MaxKeep, yes \in BOOLEAN :
       \E io \in {i \in IOs(src) : i.kind \in {"ok", "open"}} :
       \E created \in {create_backup(root, today, src, FALSE, io)} :
       \E asks \in {created.ret # None
                      /\ Len(get_backup_dates(created.root)) > backup_count} :
       \E to_delete \in
            {IF asks
             THEN prune_old_backups(created.root, Some(backup_count), TRUE, {}).ret
             ELSE <<>>} :
       \E fails \in (IF asks /\ yes THEN SUBSET Range(to_delete) ELSE {{}}) :
       \E pruned \in
            {IF asks /\ yes
             THEN prune_old_backups(created.root, Some(backup_count), FALSE, fails)
             ELSE [root |-> created.root, ret |-> <<>>, failed |-> <<>>]} :
         /\ Cardinality(Names(created.root)) <= MaxArchives
         /\ root' = pruned.root
         /\ last' = [NoCall EXCEPT !.op = "automatic_backup", !.src = src,
                        !.pre = root, !.retPath = created.ret,
                        !.path = created.opened,
                        !.keep = backup_count, !.retOk = asks /\ yes,
                        !.retList = pruned.ret,
                        !.failed = Range(pruned.failed)]
    /\ UNCHANGED <<today, scanner, analyzer, calls>>

\* The editor: folders are loaded with the automatic backup on, backups are
\* made and pruned by hand, and the clock is set.
NextEditor ==
    \/ SetClock
    \/ AutomaticBackup
    \/ CreateBackup
    \/ PruneOldBackups
    \/ Return

SpecEditor == Init /\ [][NextEditor]_vars

\* ------------------------------------------------- vocabulary of the claims
\* BackupEntry.date and BackupEntry.sequence, read off an archive name.
ArchiveDate(n) == Prefix(n, 8)

RECURSIVE DigitsFrom(_, _, _)
DigitsFrom(n, i, acc) ==
    IF i <= Len(n) /\ n[i] \in 48..57
    THEN DigitsFrom(n, i + 1, 10 * acc + (n[i] - 48))
    ELSE acc

ArchiveSequence(n) == DigitsFrom(n, 10, 0)

\* The archives of one date in a backup folder, and the dates that have one.
ArchivesOn(r, date_str) == {n \in Names(r) : ArchiveDate(n) = date_str}
BackupDates(r) == {ArchiveDate(n) : n \in Names(r)}

\* The first of a set of names in ascending name order.
FirstName(S) == CHOOSE x \in S : \A y \in S : x = y \/ Less(x, y)

\* The k most recent dates of a backup folder.
RecentDates(r, k) ==
    {d \in BackupDates(r) : Cardinality({e \in BackupDates(r) : Less(d, e)}) < k}

\* The archives of every date that is not among the k most recent.
OldArchives(r, k) == {n \in Names(r) : ArchiveDate(n) \notin RecentDates(r, k)}

NoDuplicates(seq) == Cardinality(Range(seq)) = Len(seq)

C3_PruneRemovesOldestDates ==
    (/\ last.op = "prune_old_backups"
     /\ ~last.dry
     /\ last.failed = {}
     /\ 1 <= last.keep
     /\ last.keep < Cardinality(BackupDates(last.pre)))
    => /\ \A n \in Names(last.pre) :
            ArchiveDate(n) \in RecentDates(last.pre, last.keep)
                => n \in Names(root) /\ root[n] = last.pre[n]
       /\ Names(root) \cap OldArchives(last.pre, last.keep) = {}
       /\ Names(root) \subseteq Names(last.pre)
       /\ Range(last.retList) = OldArchives(last.pre, last.keep)
       /\ NoDuplicates(last.retList)
       /\ Cardinality(BackupDates(root)) = last.keep

\* Witness of C3: three dates, one of them with two archives, pruned to one
\* or two dates.
C3_Witness ==
    /\ last.op = "prune_old_backups"
    /\ ~last.dry
    /\ last.failed = {}
    /\ 1 <= last.keep
    /\ last.keep < Cardinality(BackupDates(last.pre))
    /\ Len(last.retList) = 2
    /\ root # <<>>

\* C4: a call prune_old_backups(keep_days), dry run or not, made when the
\* number of dates that have an archive is at most keep_days returns the
\* empty list and leaves the backup folder as it was.
C4_PruneKeepsAll ==
    (/\ last.op = "prune_old_backups"
     /\ Cardinality(BackupDates(last.pre)) <= last.keep)
    => /\ last.retList = <<>>
       /\ root = last.pre

\* Witness of C4: more archives than keep_days, but not more dates.
C4_Witness ==
    /\ last.op = "prune_old_backups"
    /\ ~last.dry
    /\ Cardinality(BackupDates(last.pre)) = last.keep
    /\ Cardinality(Names(last.pre)) > last.keep

\* C5: a call prune_old_backups(k, dry_run=False) in which deletions fail
\* still tries every archive of the dates beyond the k most recent: each is
\* either deleted or one whose deletion failed; the returned list is exactly
\* the set of archives removed, each once, and holds no archive whose
\* deletion failed; those stay in the backup folder.
C5_PartialPruneReturnsRemoved ==
    (/\ last.op = "prune_old_backups"
     /\ ~last.dry)
    => /\ Range(last.retList) = Names(last.pre) \ Names(root)
       /\ NoDuplicates(last.retList)
       /\ Range(last.retList) \cap last.failed = {}
       /\ last.failed \subseteq Names(root)
       /\ \A n \in Names(root) : root[n] = last.pre[n]
       /\ Cardinality(BackupDates(last.pre)) > last.keep
            => Range(last.retList) \cup last.failed = OldArchives(last.pre, last.keep)

\* Witness of C5: a deletion failed and a later one of the same prune
\* succeeded.
C5_Witness ==
    /\ last.op = "prune_old_backups"
    /\ ~last.dry
    /\ \E f \in last.failed : \E n \in Range(last.retList) :
          ArchiveDate(f) = ArchiveDate(n) /\ Less(f, n)

RECURSIVE DigitsEnd(_, _)
DigitsEnd(n, i) == IF i <= Len(n) /\ n[i] \in 48..57 THEN DigitsEnd(n, i + 1) ELSE i
AfterSequence(n) == SubSeq(n, DigitsEnd(n, 10), Len(n))

\* An archive name reads {YYYYMMDD}_{N}-savegames{tail}.zip for this date
\* (a number yyyymmdd), this N and this tail.
NamedAs(n, date, seq, tail) ==
    /\ Len(ArchiveDate(n)) = 8
    /\ \A i \in 1..8 : n[i] \in 48..57
    /\ DigitsFrom(ArchiveDate(n), 1, 0) = date
    /\ n[9] = 95
    /\ n[10] \in 49..57
    /\ ArchiveSequence(n) = seq
    /\ AfterSequence(n) = SAVEGAMES \o tail \o ZIP

\* C7 as stated: every archive create_backup writes is named
\* {YYYYMMDD}_{N}-savegames[-v{version}].zip, with today's date, N the
\* number of today's archives before the call plus 1, and the -v{version}
\* suffix present exactly when a version tag was read from the info file.
C7_ArchiveName ==
    (last.op = "create_backup" /\ last.io = "ok")
    => LET version == get_save_version(last.src)
       IN NamedAs(last.path[1], today,
                  Cardinality(ArchivesOn(last.pre, strftime(today))) + 1,
                  IF version # None THEN DASH_V \o version[1] ELSE <<>>)

\* C7, amended: as C7, with the -v{version} suffix present exactly when a
\* version tag that is not the empty string was read from the info file.
C7_ArchiveNameNonEmptyVersion ==
    (last.op = "create_backup" /\ last.io = "ok")
    => LET version == get_save_version(last.src)
       IN /\ last.retPath = last.path
          /\ last.path[1] \in Names(root)
          /\ NamedAs(last.path[1], today,
                     Cardinality(ArchivesOn(last.pre, strftime(today))) + 1,
                     IF version # None /\ version # Some(<<>>)
                     THEN DASH_V \o version[1] ELSE <<>>)

\* Witness of C7: a forced second backup of the day, of a save folder with
\* a version, next to an archive of another kind.
C7_Witness ==
    /\ last.op = "create_backup"
    /\ last.io = "ok"
    /\ last.force
    /\ Cardinality(ArchivesOn(last.pre, strftime(today))) = 1
    /\ get_save_version(last.src) = Some(<<50>>)
    /\ ArchiveSequence(last.path[1]) = 2
    /\ \E n \in Names(last.pre) : AfterSequence(n) = SAVEGAMES \o ZIP

\* C8: a call create_backup whose archive write fails returns no path, and
\* get_all_backups, get_backup_dates and _find_backups_for_date return
\* after it what they returned before it.
C8_FailedBackupNotListed ==
    (/\ last.op = "create_backup"
     /\ last.io \in {"open", "write"})
    => /\ last.retPath = None
       /\ get_all_backups(root) = get_all_backups(last.pre)
       /\ get_backup_dates(root) = get_backup_dates(last.pre)
       /\ \A ds \in DateStrs :
            find_backups_for_date(root, ds) = find_backups_for_date(last.pre, ds)

\* C9: a call create_backup with a save folder that does not exist, forced
\* or not, returns no path, opens no archive file and leaves the backup
\* folder as it was.
C9_MissingSourceNoBackup ==
    (last.op = "create_backup" /\ ~last.src.exists)
    => /\ last.retPath = None
       /\ last.path = None
       /\ root = last.pre

\* Witness of C9: a forced call with a missing save folder on a day that
\* has an archive.
C9_Witness ==
    /\ last.op = "create_backup"
    /\ ~last.src.exists
    /\ last.force
    /\ ArchivesOn(last.pre, strftime(today)) # {}

\* C10: a call restore_backup with an archive path at which there is no
\* file returns False and leaves the target folder and the backup folder as
\* they were.
C10_MissingArchiveNotRestored ==
    (last.op = "restore_backup" /\ last.path[1] \notin Names(last.pre))
    => /\ ~last.retOk
       /\ last.postTarget = last.preTarget
       /\ root = last.pre

\* Witness of C10: a restore of a missing archive into a target folder that
\* holds a file, the backup folder holding other archives.
C10_Witness ==
    /\ last.op = "restore_backup"
    /\ last.path[1] \notin Names(last.pre)
    /\ last.preTarget # {}
    /\ last.pre # <<>>

\* The files a folder tree holds under its subfolder name, by their path
\* relative to that subfolder, and the files it holds elsewhere.
FilesUnder(t, name) == {<<f[2], f[3]>> : f \in {g \in t : g[1] = name}}
FilesOutside(t, name) == {g \in t : g[1] # name}

NameAscendingWithinDate(pairs) ==
    \A i, j \in 1..Len(pairs) :
        (i < j /\ pairs[i][1] = pairs[j][1]) => Less(pairs[i][2], pairs[j][2])
DateDescending(pairs) ==
    \A i, j \in 1..Len(pairs) : i < j => ~Less(pairs[i][1], pairs[j][1])
DateAscending(pairs) ==
    \A i, j \in 1..Len(pairs) : i < j => ~Less(pairs[j][1], pairs[i][1])

\* C12 as stated: the list get_all_backups returns for a backup folder that
\* holds archives of two or more dates is in descending date order overall
\* and in ascending name order within each date.
C12_ListDateDescending ==
    (/\ last.op = "get_all_backups"
     /\ Cardinality(BackupDates(last.pre)) >= 2)
    => /\ DateDescending(last.retPairs)
       /\ NameAscendingWithinDate(last.retPairs)

\* C12, amended: the list get_all_backups returns holds every archive of the
\* backup folder once, with the date its name starts with, in ascending
\* date order overall and in ascending name order within each date.
C12_ListDateAscending ==
    (last.op = "get_all_backups")
    => /\ DateAscending(last.retPairs)
       /\ NameAscendingWithinDate(last.retPairs)
       /\ \A i \in 1..Len(last.retPairs) :
            last.retPairs[i][1] = ArchiveDate(last.retPairs[i][2])
       /\ {p[2] : p \in Range(last.retPairs)} = Names(last.pre)
       /\ Len(last.retPairs) = Cardinality(Names(last.pre))

\* Witness of C12: a list of three archives, two of them of one date.
C12_Witness ==
    /\ last.op = "get_all_backups"
    /\ Len(last.retPairs) = 3
    /\ Cardinality(BackupDates(last.pre)) = 2

\* C13: get_backup_dates returns every date that has an archive in the
\* backup folder, each once, in strictly descending order, and no other
\* date; get_all_backups, get_backup_dates and get_total_backup_size leave
\* the backup folder as it was.
C13_BackupDatesUniqueDescending ==
    /\ (last.op = "get_backup_dates")
       => /\ Range(last.retList) = BackupDates(last.pre)
          /\ \A i, j \in 1..Len(last.retList) :
                i < j => Less(last.retList[j], last.retList[i])
    /\ (last.op \in {"get_all_backups", "get_backup_dates", "get_total_backup_size"})
       => root = last.pre

\* Witness of C13: the dates of three archives, two of them of one date.
C13_Witness ==
    /\ last.op = "get_backup_dates"
    /\ Cardinality(Names(last.pre)) = 3
    /\ Len(last.retList) = 2

\* The value a visit read, and the identifier int() made of it.
VisitValue(doc, v) == Get(doc[v.node], v.attr, v.default)

\* C14: in every state of a scan, after each classification step and when
\* scan_file has returned the result, total_ids_found equals
\* known_ids_count plus the occurrences of all unknown items.
C14_TotalIsKnownPlusOccurrences ==
    /\ result.total_ids_found
         = result.known_ids_count + SumOccurrences(result.unknown_items)
    /\ (last.op = "scan_file" /\ last.outcome \in {"known", "unknown"})
       => result.total_ids_found = last.preResult.total_ids_found + 1

\* Witness of C14: a scan that returned a result with a known identifier
\* and an unknown item sighted twice.
C14_Witness ==
    /\ scan_pc = "done"
    /\ result.known_ids_count >= 1
    /\ \E k \in 1..Len(result.unknown_items) : result.unknown_items[k].occurrences = 2

\* The entries of a ScanResult that have this id_value and id_type.
EntriesOf(res, id_value, id_type) ==
    {k \in 1..Len(res.unknown_items) :
        /\ res.unknown_items[k].id_value = id_value
        /\ res.unknown_items[k].id_type = id_type}

\* C15: after any sequence of add_unknown_item calls no two entries of
\* unknown_items have the same id_value and id_type; and a call whose item
\* has the id_value and id_type of an entry adds 1 to the occurrences of
\* that entry, changes nothing else and appends nothing.
C15_UnknownItemsDeduplicated ==
    /\ \A i, j \in 1..Len(result.unknown_items) :
          (/\ result.unknown_items[i].id_value = result.unknown_items[j].id_value
           /\ result.unknown_items[i].id_type = result.unknown_items[j].id_type)
          => i = j
    /\ (/\ last.op = "add_unknown_item"
        /\ EntriesOf(last.preResult, last.item.id_value, last.item.id_type) # {})
       => /\ Len(result.unknown_items) = Len(last.preResult.unknown_items)
          /\ \A k \in 1..Len(result.unknown_items) :
                result.unknown_items[k]
                  = IF k \in EntriesOf(last.preResult, last.item.id_value,
                                       last.item.id_type)
                    THEN [last.preResult.unknown_items[k] EXCEPT !.occurrences = @ + 1]
                    ELSE last.preResult.unknown_items[k]

\* Witness of C15: a repeated sighting, with another tag than the first one
\* had, of the second of two entries.
C15_Witness ==
    /\ last.op = "add_unknown_item"
    /\ Len(last.preResult.unknown_items) = 2
    /\ EntriesOf(last.preResult, last.item.id_value, last.item.id_type) = {2}
    /\ last.preResult.unknown_items[2].xml_tag # last.item.xml_tag

\* C16: a visit of any pass to a value that is not numeric changes no
\* counter, adds no unknown item and does not make scan_file raise.
C16_NonNumericSkipped ==
    (/\ last.op = "scan_file"
     /\ last.visit.pass # "none"
     /\ int(VisitValue(tree, last.visit)) = None)
    => /\ result = last.preResult
       /\ scan_pc # "raised"

\* C17: within one scan no attribute of an element is counted twice in
\* total_ids_found, no element counted by a targeted pass is counted by the
\* catch-all pass, and total_ids_found is the number of attributes counted.
C17_NoDoubleCounting ==
    /\ \A i, j \in 1..Len(counted) :
          (counted[i][1] = counted[j][1] /\ counted[i][2] = counted[j][2]) => i = j
    /\ \A i, j \in 1..Len(counted) :
          (counted[i][3] # "generic" /\ counted[j][3] = "generic")
          => counted[i][1] # counted[j][1]
    /\ scan_pc \in {"scanning", "done"} => result.total_ids_found = Len(counted)

\* Witness of C17: a scan that returned after it counted two attributes of
\* one element and the catch-all pass left an element to the other passes.
C17_Witness ==
    /\ scan_pc = "done"
    /\ \E i, j \in 1..Len(counted) : i # j /\ counted[i][1] = counted[j][1]
    /\ \E k \in 1..Len(tree) :
          /\ tree[k].tag \in checked_tags
          /\ \E a \in Range(id_attributes) :
                HasAttrib(tree[k], a) /\ int(Get(tree[k], a, <<>>)) # None

\* The catalog category and the id_type of the place of an attribute: an a
\* element of an attr block, an s of a skills block, a t of a traits block,
\* a c of a conditions block, an item, the objId of an s, a research and a
\* craft element.
PlaceKind(doc, node, attr) ==
    LET tag == doc[node].tag
        parent == IF doc[node].parent = 0 THEN "" ELSE doc[doc[node].parent].tag
    IN CASE tag = "a" /\ parent = "attr" -> <<"attributes", "attribute">>
         [] tag = "s" /\ parent = "skills" /\ attr = "id" -> <<"skills", "skill">>
         [] tag = "t" /\ parent = "traits" -> <<"traits", "trait">>
         [] tag = "c" /\ parent = "conditions" -> <<"conditions", "condition">>
         [] tag = "item" -> <<"storage_items", "storage_item">>
         [] tag = "s" /\ attr = "objId" -> <<"storage_items", "storage_item">>
         [] tag = "research" -> <<"research", "research">>
         [] tag = "craft" -> <<"crafts", "craft">>

\* C18: an identifier a targeted pass counts is known exactly when the
\* catalog holds it in the category of its place, whatever other category
\* holds it; a known one adds 1 to known_ids_count and changes no unknown
\* item; another one is recorded as an unknown item of the id_type of its
\* place.  The save file with the attributes 210 and 999 and the skill 1
\* gives total_ids_found 3, known_ids_count 2 and the one unknown item
\* (999, attribute) with occurrences 1.
C18_ClassifiedByPlace ==
    /\ (/\ last.op = "scan_file"
        /\ last.visit.pass \notin {"none", "generic"}
        /\ last.outcome \in {"known", "unknown"})
       => LET id_value == int(VisitValue(tree, last.visit))[1]
              kind == PlaceKind(tree, last.visit.node, last.visit.attr)
          IN /\ last.outcome = "known" <=> id_value \in ReferenceData[kind[1]]
             /\ last.outcome = "known"
                  => /\ result.known_ids_count = last.preResult.known_ids_count + 1
                     /\ result.unknown_items = last.preResult.unknown_items
             /\ last.outcome = "unknown"
                  => /\ result.known_ids_count = last.preResult.known_ids_count
                     /\ Cardinality(EntriesOf(result, id_value, kind[2])) = 1
                     /\ SumOccurrences(result.unknown_items)
                          = SumOccurrences(last.preResult.unknown_items) + 1
                     /\ \A k \in EntriesOf(result, id_value, kind[2]) :
                          result.unknown_items[k].occurrences
                            = IF k <= Len(last.preResult.unknown_items)
                              THEN last.preResult.unknown_items[k].occurrences + 1
                              ELSE 1
    /\ (/\ scan_pc = "done"
        /\ tree = Document(<< tree[1] >>, << TwoAttributesOneSkill >>))
       => /\ result.total_ids_found = 3
          /\ result.known_ids_count = 2
          /\ Len(result.unknown_items) = 1
          /\ result.unknown_items[1].id_value = 999
          /\ result.unknown_items[1].id_type = "attribute"
          /\ result.unknown_items[1].occurrences = 1

\* Witness of C18: the scan of the save file with the attributes 210 and
\* 999 and the skill 1 has returned.
C18_Witness ==
    /\ scan_pc = "done"
    /\ tree = Document(<< tree[1] >>, << TwoAttributesOneSkill >>)

\* The case of C18 where another category holds the identifier: the
\* attribute 1, an identifier of the skills, recorded as an unknown
\* attribute.
C18_WitnessOtherCategory ==
    /\ last.op = "scan_file"
    /\ last.outcome = "unknown"
    /\ last.visit.id_type = "attribute"
    /\ int(VisitValue(tree, last.visit)) = Some(1)

\* The orders of a list: every list that holds the same entries.
Reorderings(seq) ==
    { [k \in 1..Len(seq) |-> seq[f[k]]] :
        f \in {g \in [1..Len(seq) -> 1..Len(seq)] :
                  \A i, j \in 1..Len(seq) : g[i] = g[j] => i = j} }

\* The category of a heading line of a report, as its place in the order
\* of category names; and the lines of a report that are a heading or the
\* first line of an item.
HeadingRank(line) == CHOOSE k \in 1..Len(id_types) : title[id_types[k]] = line.str
IsHeading(line) == line.text = "### {id_type.title()}s"
IsItem(line) == line.text = "- **ID {id_value}**"

\* C19: the report generate_bug_report makes of a ScanResult is the report
\* it makes of every ScanResult that differs only in the order of
\* unknown_items; its categories are in ascending order of name and the
\* identifiers of a category in ascending order.
C19_ReportOrderIndependent ==
    (last.op = "generate_bug_report")
    => /\ \A items \in Reorderings(result.unknown_items) :
            generate_bug_report([result EXCEPT !.unknown_items = items]) = last.report
       /\ \A i, j \in 1..Len(last.report) :
            (i < j /\ IsHeading(last.report[i]) /\ IsHeading(last.report[j]))
            => HeadingRank(last.report[i]) < HeadingRank(last.report[j])
       /\ \A i, j \in 1..Len(last.report) :
            (/\ i < j
             /\ IsItem(last.report[i])
             /\ IsItem(last.report[j])
             /\ ~\E h \in i..j : IsHeading(last.report[h]))
            => last.report[i].number < last.report[j].number
       /\ Cardinality({i \in 1..Len(last.report) : IsItem(last.report[i])})
            = Len(result.unknown_items)

\* Witness of C19: the report of three unknown items, two of one category
\* added in descending order of identifier, the third of a category whose
\* name comes first.
C19_Witness ==
    /\ last.op = "generate_bug_report"
    /\ Len(result.unknown_items) = 3
    /\ result.unknown_items[1].id_type = "skill"
    /\ result.unknown_items[2].id_type = "skill"
    /\ result.unknown_items[1].id_value > result.unknown_items[2].id_value
    /\ result.unknown_items[3].id_type = "attribute"


RECURSIVE ChildDifferences(_, _, _)
\* The child-tag differences of two structural summaries at a node path
\* both have and at every node path below it both have: a tag the
\* baseline's node has a child of and the other's has not is missing at
\* that path, and the converse is new at that path.
ChildDifferences(baseline, other, path) ==
    IF baseline.truncated \/ other.truncated THEN {}
    ELSE {Difference("Missing element at", path, t) :
            t \in ChildTags(baseline) \ ChildTags(other)}
         \cup {Difference("New element at", path, t) :
            t \in ChildTags(other) \ ChildTags(baseline)}
         \cup UNION { ChildDifferences(baseline.children[k], other.children[m],
                                      Append(path, baseline.child_counts[k][1])) :
                        <<k, m>> \in
                          {km \in (1..Len(baseline.children)) \X (1..Len(other.children)) :
                             baseline.child_counts[km[1]][1] = other.child_counts[km[2]][1]} }

\* C20: when compare_saves returns, the differences it reports are the
\* child-tag differences at every node path present in both structural
\* summaries, each at the path of its own node: those at the root and those
\* at the nodes below it, and none at the path of an ancestor.
C20_ChildDifferencesAtEveryPath ==
    (last.op = "compare_saves" /\ analyzer_pc = "returned")
        => Range(comparison.structural_differences)
             = ChildDifferences(analyze_structure(last.baseline),
                                analyze_structure(last.other), <<"root">>)

\* compare_saves has returned for two files that differ in the children of
\* a node below the root and not in those of the root.
C20_DifferenceBelowRoot ==
    /\ last.op = "compare_saves"
    /\ analyzer_pc = "returned"
    /\ comparison.structural_differences = <<>>
    /\ ChildDifferences(analyze_structure(last.baseline),
                        analyze_structure(last.other), <<"root">>) # {}

\* The id-to-name maps of the two files compare_saves has compared, as the
\* analyzer has cached them.
BaselineIds == analyzed_saves[BASELINE].item_ids
ComparisonIds == analyzed_saves[COMPARISON].item_ids

\* compare_saves has returned a comparison of two files.
Compared == last.op = "compare_saves" /\ analyzer_pc = "returned"

FirstCarried(e, names) ==
    Get(e, names[CHOOSE k \in 1..Len(names) :
                    /\ HasAttrib(e, names[k])
                    /\ \A m \in 1..(k - 1) : ~HasAttrib(e, names[m])], None)

\* Whether an element carries one of these attributes.
Carries(e, names) == \E k \in 1..Len(names) : HasAttrib(e, names[k])

\* The gamedata child of the root, or 0.
GamedataOf(doc) == find(doc, 1, "gamedata")

\* Whether gamedata has a galaxyCount or an l of starmap/systems has a gen.
Alpha20Structure(doc) ==
    \/ GamedataOf(doc) # 0 /\ HasAttrib(doc[GamedataOf(doc)], "galaxyCount")
    \/ \E i, j, k \in 1..Len(doc) :
          /\ i = find(doc, 1, "starmap")
          /\ j = find(doc, i, "systems")
          /\ doc[k].parent = j
          /\ doc[k].tag = "l"
          /\ HasAttrib(doc[k], "gen")

\* C22: _extract_version returns the first of version, gameVersion,
\* saveVersion, alpha the root carries; when the root carries none, the
\* first of version, gameVersion the gamedata child carries; and only when
\* there is none either a label inferred from the structure: "Alpha 20+"
\* when gamedata has a galaxyCount or an l of starmap/systems has a gen, and
\* the legacy label otherwise.  The result is never absent.
C22_ExplicitVersionFirst ==
    (last.op = "_extract_version") =>
        LET doc == last.baseline
            root_names == <<"version", "gameVersion", "saveVersion", "alpha">>
            gamedata_names == <<"version", "gameVersion">>
        IN /\ last.version # None
           /\ IF Carries(doc[1], root_names)
              THEN last.version = FirstCarried(doc[1], root_names)
              ELSE IF GamedataOf(doc) # 0 /\ Carries(doc[GamedataOf(doc)], gamedata_names)
              THEN last.version = FirstCarried(doc[GamedataOf(doc)], gamedata_names)
              ELSE last.version =
                     IF Alpha20Structure(doc) THEN ALPHA_20 ELSE ALPHA_BEFORE_20

\* _extract_version has returned the gameVersion of the root of a file
\* whose root has no version, whose gamedata has a version and a
\* galaxyCount, and whose starmap has a gen.
C22_Witness ==
    /\ last.op = "_extract_version"
    /\ ~HasAttrib(last.baseline[1], "version")
    /\ HasAttrib(last.baseline[1], "gameVersion")
    /\ HasAttrib(last.baseline[1], "alpha")
    /\ GamedataOf(last.baseline) # 0
    /\ HasAttrib(last.baseline[GamedataOf(last.baseline)], "version")
    /\ Alpha20Structure(last.baseline)
    /\ last.version = <<50>>

\* Whether the report of the last call has a line of this text.
Shows(text) == \E k \in 1..Len(last.report) : last.report[k].text = text

\* The lines after the heading Migration Recommendations of the last report.
Recommended ==
    LET heading == CHOOSE k \in 1..Len(last.report) :
                      last.report[k].text = "## Migration Recommendations"
    IN {last.report[k].text : k \in (heading + 1)..Len(last.report)}

APPEAR_COMPATIBLE ==
    "The save files appear compatible. Migration should be relatively safe, but always backup first."

\* The comparison reported holds a difference of some kind.
AnyDifference ==
    \/ comparison.missing_elements # <<>>
    \/ comparison.new_elements # <<>>
    \/ comparison.id_changes # <<>>
    \/ comparison.structural_differences # <<>>

\* C23: the Migration Recommendations of a comparison report show the
\* text that the files appear compatible if and only if missing_elements,
\* new_elements, id_changes and structural_differences are all empty, and
\* show Caution Required whenever one of them is not empty.
C23_CautionForAnyDifference ==
    (last.op = "generate_comparison_report") =>
        /\ (APPEAR_COMPATIBLE \in Recommended) <=> ~AnyDifference
        /\ AnyDifference => "### Caution Required" \in Recommended

\* C24: compare_saves of two files that parse returns a VersionComparison
\* and does not raise, also when gamedata, sectors, facilities or items are
\* absent and when idCounter or sectorCount is not a number; what was not
\* found is an empty list.
C24_CompareNeverRaises ==
    (last.op = "compare_saves") =>
        /\ analyzer_pc = "returned"
        /\ DOMAIN analyzed_saves = {BASELINE, COMPARISON}
        /\ \A path \in {BASELINE, COMPARISON} :
              /\ find(IF path = BASELINE THEN last.baseline ELSE last.other,
                      1, "gamedata") = 0
                    => analyzed_saves[path].gamedata_attributes = <<>>
              /\ findall_descendants(IF path = BASELINE THEN last.baseline ELSE last.other,
                                     "facility") = <<>>
                    => analyzed_saves[path].facility_types = {}

\* The marker of a node that is not expanded: no tag, no attribute, no
\* child.
IsTruncated(summary) ==
    /\ summary.truncated
    /\ summary.tag = ""
    /\ summary.attributes = <<>>
    /\ summary.child_counts = <<>>
    /\ summary.children = <<>>

RECURSIVE SummaryOf(_, _, _, _, _)
\* Whether a summary is that of a node of a document at a depth, when the
\* nodes at the depth limit and above are expanded and those below are
\* truncated: an expanded node has the node's tag and a child summary for
\* the first child of each tag.
SummaryOf(summary, doc, node, depth, limit) ==
    IF depth > limit THEN IsTruncated(summary)
    ELSE LET tags == {doc[j].tag : j \in {c \in 1..Len(doc) : doc[c].parent = node}}
         IN /\ ~summary.truncated
            /\ summary.tag = doc[node].tag
            /\ ChildTags(summary) = tags
            /\ Len(summary.child_counts) = Cardinality(tags)
            /\ Len(summary.children) = Cardinality(tags)
            /\ \A k \in 1..Len(summary.children) :
                  SummaryOf(summary.children[k], doc,
                            find(doc, node, summary.child_counts[k][1]),
                            depth + 1, limit)

RECURSIVE Depth(_, _)
\* The depth of a node of a document, the root at 0.
Depth(doc, node) == IF doc[node].parent = 0 THEN 0 ELSE 1 + Depth(doc, doc[node].parent)

\* analyze_save_file has returned the analysis of a file.
Analyzed == last.op = "analyze_save_file" /\ analyzer_pc = "returned"

\* C25 as claimed: in the structural summary a node at depth max_depth is
\* recorded as truncated and none of its children is summarized; the nodes
\* above it are expanded.
C25_TruncatedAtMaxDepth ==
    Analyzed =>
        SummaryOf(analyzed_saves[BASELINE].xml_structure, last.baseline, 1, 0,
                  max_depth - 1)

\* C25: in the structural summary, the root at depth 0, every node down to
\* depth max_depth is expanded, the first child of each tag of a node at
\* depth max_depth is recorded as truncated and none of its children is
\* summarized: the summary holds no expanded node deeper than max_depth.
C25_TruncatedBelowMaxDepth ==
    Analyzed =>
        SummaryOf(analyzed_saves[BASELINE].xml_structure, last.baseline, 1, 0,
                  max_depth)

\* analyze_save_file has returned the analysis of a file that has a node
\* below depth max_depth + 1.
C25_Witness ==
    /\ Analyzed
    /\ \E node \in 1..Len(last.baseline) : Depth(last.baseline, node) > max_depth + 1

\* The note of a comparison that found nothing against compatibility.
COMPATIBLE == Note("Save files appear to be structurally compatible.", 0)

\* C30: a comparison compare_saves returns has at least one compatibility
\* note; the note that the files appear structurally compatible is among
\* them if and only if missing_elements, id_changes and
\* structural_differences are empty, whatever new_elements holds; and the
\* comparison of a file with itself has the four lists empty and that note
\* alone.
C30_CompatibilityNotes ==
    Compared =>
        /\ comparison.compatibility_notes # <<>>
        /\ (COMPATIBLE \in Range(comparison.compatibility_notes))
             <=> /\ comparison.missing_elements = <<>>
                 /\ comparison.id_changes = <<>>
                 /\ comparison.structural_differences = <<>>
        /\ (last.baseline = last.other)
             => /\ ~AnyDifference
                /\ comparison.compatibility_notes = <<COMPATIBLE>>

\* compare_saves has returned the comparison of a file with itself, a file
\* that has facilities and items.
C30_Witness ==
    /\ Compared
    /\ last.baseline = last.other
    /\ BaselineIds # <<>>
    /\ analyzed_saves[BASELINE].facility_types # {}

\* compare_saves has returned a comparison that has new elements and the
\* note that the files appear structurally compatible.
C30_WitnessNewElements ==
    /\ Compared
    /\ comparison.new_elements # <<>>
    /\ COMPATIBLE \in Range(comparison.compatibility_notes)

\* Both callers have made a forced create_backup call of an existing save
\* folder and both calls have returned.
TwoForcedCalls ==
    \A w \in Callers :
        /\ calls.call[w].pc = "done"
        /\ calls.call[w].src.exists
        /\ calls.call[w].force

\* The archives in the backup folder that were not there before the calls.
NewArchives == Names(root) \ Names(calls.before)

\* C26: of two forced create_backup calls in one backup folder on one date,
\* when both list today's archives before either writes, both compute the
\* same sequence number and the same archive name and fewer than two new
\* archives exist afterwards; when one call returns before the other
\* begins, two archives with distinct sequence numbers exist.
C26_ListThenWriteNotAtomic ==
    TwoForcedCalls =>
        LET first == calls.call[1].ret[1]
            second == calls.call[2].ret[1]
        IN IF calls.overlapped
           THEN /\ ArchiveSequence(first) = ArchiveSequence(second)
                /\ first = second
                /\ Cardinality(NewArchives) < 2
           ELSE /\ {first, second} \subseteq Names(root)
                /\ ArchiveSequence(first) # ArchiveSequence(second)

\* What prune_old_backups(keep_days, dry_run=False) does in the backup
\* folder the last call found, when every deletion succeeds.
RealPrune == prune_old_backups(last.pre, Some(last.keep), FALSE, {})

\* C27: prune_old_backups(k, dry_run=True) leaves the backup folder as it
\* is and returns the list of the archives that prune_old_backups(k,
\* dry_run=False) removes from the same folder when every deletion
\* succeeds.
C27_DryRunReportsWhatPruneRemoves ==
    (last.op = "prune_old_backups" /\ last.dry) =>
        /\ root = last.pre
        /\ last.retList = RealPrune.ret
        /\ NoDuplicates(last.retList)
        /\ Range(last.retList) = Names(last.pre) \ Names(RealPrune.root)

\* A dry run has returned two archives or more, and the backup folder holds
\* an archive it has not returned.
C27_Witness ==
    /\ last.op = "prune_old_backups"
    /\ last.dry
    /\ Len(last.retList) >= 2
    /\ Names(root) \ Range(last.retList) # {}

\* C28: a forced create_backup that opens an archive file for writing opens
\* a path at which the backup folder holds no archive, and every archive
\* the folder held before the call is there after it with the content it
\* had; in every state that create_backup, prune_old_backups and the
\* deletion of single archives lead to.
C28_CreateNeverOverwrites ==
    (last.op = "create_backup" /\ last.force /\ last.path # None) =>
        /\ last.path[1] \notin Names(last.pre)
        /\ \A n \in Names(last.pre) : n \in Names(root) /\ root[n] = last.pre[n]

\* The archives of the most recent backup date of a backup folder.
MostRecentArchives(r) ==
    {n \in Names(r) : \A m \in Names(r) : ~Less(ArchiveDate(n), ArchiveDate(m))}

\* The backup folder held an archive dated later than today before the
\* last call.
LaterArchive == \E n \in Names(last.pre) : Less(strftime(today), ArchiveDate(n))

\* C29: prune_old_backups with keep_days >= 1 deletes no archive of the most
\* recent backup date; and when the automatic backup of the editor has
\* pruned, the archive create_backup returned still exists unless the
\* folder held an archive dated later than today, and there are at most
\* backup_count backup dates left if every deletion succeeded.
C29_PruneKeepsNewest ==
    /\ (last.op = "prune_old_backups" /\ ~last.dry /\ last.keep >= 1)
         => MostRecentArchives(last.pre) \subseteq Names(root)
    /\ (last.op = "automatic_backup" /\ last.retOk)
         => /\ ~LaterArchive => last.retPath[1] \in Names(root)
            /\ (last.failed = {})
                  => Cardinality(BackupDates(root)) <= last.keep

\* The automatic backup has written an archive and pruned: it has deleted
\* the archives of an older date and kept the one just written.
C29_Witness ==
    /\ last.op = "automatic_backup"
    /\ last.retOk
    /\ last.path # None
    /\ last.retList # <<>>
    /\ ~LaterArchive
    /\ last.retPath[1] \in Names(root)

\* The automatic backup has pruned the archive it got from create_backup:
\* the backup folder held an archive dated later than today.
C29_WitnessLaterArchive ==
    /\ last.op = "automatic_backup"
    /\ last.retOk
    /\ LaterArchive
    /\ last.retPath[1] \notin Names(root)
====
